---------------------------- MODULE Spec2Model ----------------------------
(***************************************************************************)
(* The JerryScript debugger endpoint: the websocket transport of           *)
(* src/unnamed/part_002 (accept, send, receive, close), the flags and      *)
(* message types of src/jerry-core/debugger/debugger.h, and the message    *)
(* dispatcher and the engine's pause points, whose code is not part of     *)
(* the sources at hand and is modelled from the specification.             *)
(***************************************************************************)
EXTENDS Integers, Sequences, FiniteSets, TLC

(***************************************************************************)
(* Bounds of the model.                                                    *)
(***************************************************************************)
MaxCp == 2          \* compressed pointers of byte code units are 1..MaxCp
MaxOffset == 1      \* breakpoint offsets of a unit are 0..MaxOffset
MaxDepth == 2       \* call frames are numbered 0..MaxDepth (0 is the outermost)
MaxTotal == 2       \* announced total size of a fragmented inbound transfer
MaxPiece == 2       \* units of a handshake request that one recv delivers
MaxWrite == 2       \* bytes a send() takes when it does not take all that is left
MaxRead == 3        \* bytes a recv() takes when it does not take all there is
MaxInbound == 14    \* bytes in flight and buffered when the client writes a further frame
MaxChunks == 2
MaxFrames == 3      \* full messages in the longest outgoing stream
request_buffer_size == 6   \* the handshake buffer, counted in units of the request

CPs == 1..MaxCp
Offsets == 0..MaxOffset
Depths == 0..MaxDepth

(***************************************************************************)
(* debugger.h: constants.                                                  *)
(***************************************************************************)
JERRY_DEBUGGER_MESSAGE_FREQUENCY == 5
JERRY_DEBUGGER_VERSION == 2

\* jerry_debugger_flags_t, a bit set: the names of the bits that are set.
JERRY_DEBUGGER_CONNECTED == "CONNECTED"
JERRY_DEBUGGER_BREAKPOINT_MODE == "BREAKPOINT_MODE"
JERRY_DEBUGGER_VM_STOP == "VM_STOP"
JERRY_DEBUGGER_VM_IGNORE == "VM_IGNORE"
JERRY_DEBUGGER_VM_IGNORE_EXCEPTION == "VM_IGNORE_EXCEPTION"
JERRY_DEBUGGER_PARSER_WAIT == "PARSER_WAIT"
JERRY_DEBUGGER_PARSER_WAIT_MODE == "PARSER_WAIT_MODE"
JERRY_DEBUGGER_CLIENT_SOURCE_MODE == "CLIENT_SOURCE_MODE"
JERRY_DEBUGGER_CLIENT_NO_SOURCE == "CLIENT_NO_SOURCE"
JERRY_DEBUGGER_CONTEXT_RESET_MODE == "CONTEXT_RESET_MODE"
JERRY_DEBUGGER_THROW_ERROR_FLAG == "THROW_ERROR_FLAG"

jerry_debugger_flags_t ==
  { JERRY_DEBUGGER_CONNECTED, JERRY_DEBUGGER_BREAKPOINT_MODE, JERRY_DEBUGGER_VM_STOP,
    JERRY_DEBUGGER_VM_IGNORE, JERRY_DEBUGGER_VM_IGNORE_EXCEPTION, JERRY_DEBUGGER_PARSER_WAIT,
    JERRY_DEBUGGER_PARSER_WAIT_MODE, JERRY_DEBUGGER_CLIENT_SOURCE_MODE,
    JERRY_DEBUGGER_CLIENT_NO_SOURCE, JERRY_DEBUGGER_CONTEXT_RESET_MODE,
    JERRY_DEBUGGER_THROW_ERROR_FLAG }

\* part_002: JERRY_DEBUGGER_RECEIVE_DATA_MODE
JERRY_DEBUGGER_RECEIVE_DATA_MODE ==
  { JERRY_DEBUGGER_BREAKPOINT_MODE, JERRY_DEBUGGER_CLIENT_SOURCE_MODE }

\* An update that sets and forgets to clear.
JERRY_DEBUGGER_UPDATE_FLAGS_set_only(fl, flags_to_set, flags_to_clear) == fl \cup flags_to_set

\* A clear that leaves the flags as they are.
JERRY_DEBUGGER_CLEAR_FLAGS_nothing(fl, flags) == fl

\* The flag macros of debugger.h, on a flag set fl.
JERRY_DEBUGGER_SET_FLAGS(fl, flags) == fl \cup flags
JERRY_DEBUGGER_CLEAR_FLAGS(fl, flags) == fl \ flags
JERRY_DEBUGGER_UPDATE_FLAGS(fl, flags_to_set, flags_to_clear) ==
  (fl \cup flags_to_set) \ flags_to_clear

\* jerry_debugger_header_type_t: messages sent by the server.
JERRY_DEBUGGER_CONFIGURATION == 1
JERRY_DEBUGGER_PARSE_FUNCTION == 4
JERRY_DEBUGGER_BREAKPOINT_LIST == 5
JERRY_DEBUGGER_BREAKPOINT_OFFSET_LIST == 6
JERRY_DEBUGGER_BYTE_CODE_CP == 3
JERRY_DEBUGGER_SOURCE_CODE == 7
JERRY_DEBUGGER_SOURCE_CODE_END == 8
JERRY_DEBUGGER_SOURCE_CODE_NAME == 9
JERRY_DEBUGGER_FUNCTION_NAME == 11
JERRY_DEBUGGER_EXCEPTION_HIT == 17
JERRY_DEBUGGER_EXCEPTION_STR == 18
JERRY_DEBUGGER_BACKTRACE == 20
JERRY_DEBUGGER_EVAL_RESULT == 22
JERRY_DEBUGGER_OUTPUT_RESULT == 25
JERRY_DEBUGGER_SOURCE_CODE_NAME_END == 10
JERRY_DEBUGGER_FUNCTION_NAME_END == 12
JERRY_DEBUGGER_WAITING_AFTER_PARSE == 13
JERRY_DEBUGGER_RELEASE_BYTE_CODE_CP == 14
JERRY_DEBUGGER_MEMSTATS_RECEIVE == 15
JERRY_DEBUGGER_BREAKPOINT_HIT == 16
JERRY_DEBUGGER_BACKTRACE_END == 21
JERRY_DEBUGGER_EVAL_RESULT_END == 23
JERRY_DEBUGGER_WAIT_FOR_SOURCE == 24

\* jerry_debugger_header_type_t: messages sent by the client.
JERRY_DEBUGGER_FREE_BYTE_CODE_CP == 1
JERRY_DEBUGGER_UPDATE_BREAKPOINT == 2
JERRY_DEBUGGER_EXCEPTION_CONFIG == 3
JERRY_DEBUGGER_PARSER_CONFIG == 4
JERRY_DEBUGGER_MEMSTATS == 5
JERRY_DEBUGGER_STOP == 6
JERRY_DEBUGGER_PARSER_RESUME == 7
JERRY_DEBUGGER_CLIENT_SOURCE == 8
JERRY_DEBUGGER_CLIENT_SOURCE_PART == 9
JERRY_DEBUGGER_NO_MORE_SOURCES == 10
JERRY_DEBUGGER_CONTEXT_RESET == 11
JERRY_DEBUGGER_CONTINUE == 12
JERRY_DEBUGGER_STEP == 13
JERRY_DEBUGGER_NEXT == 14
JERRY_DEBUGGER_FINISH == 15
JERRY_DEBUGGER_GET_BACKTRACE == 16
JERRY_DEBUGGER_EVAL == 17
JERRY_DEBUGGER_EVAL_PART == 18
JERRY_DEBUGGER_THROW == 19
JERRY_DEBUGGER_THROW_PART == 20

\* part_002: jerry_websocket_opcode_type_t
JERRY_DEBUGGER_WEBSOCKET_TEXT_FRAME == 1
JERRY_DEBUGGER_WEBSOCKET_BINARY_FRAME == 2
JERRY_DEBUGGER_WEBSOCKET_CLOSE_CONNECTION == 8
JERRY_DEBUGGER_WEBSOCKET_PING == 9
JERRY_DEBUGGER_WEBSOCKET_PONG == 10

JERRY_DEBUGGER_MAX_BUFFER_SIZE == 128
JERRY_DEBUGGER_MAX_SEND_SIZE == JERRY_DEBUGGER_MAX_BUFFER_SIZE - 1
JERRY_DEBUGGER_NO_SUBTYPE == 0
JERRY_DEBUGGER_WEBSOCKET_FIN_BIT == 128
JERRY_DEBUGGER_WEBSOCKET_MASK_BIT == 128
JERRY_DEBUGGER_WEBSOCKET_OPCODE_MASK == 15
JERRY_DEBUGGER_WEBSOCKET_LENGTH_MASK == 127
JERRY_DEBUGGER_WEBSOCKET_HEADER_SIZE == 2
JERRY_DEBUGGER_WEBSOCKET_MASK_SIZE == 4
JERRY_DEBUGGER_WEBSOCKET_ONE_BYTE_LEN_MAX == 125

NoFd == -1          \* the value of fd while no client socket is open
ClientFd == 3       \* the descriptor accept() returns
ServerFd == 4       \* the descriptor socket() returns: the listening socket
NULL == -1          \* a null stop context

(***************************************************************************)
(* State.                                                                  *)
(***************************************************************************)
VARIABLES
  debugger_flags,         \* JERRY_CONTEXT (debugger_flags)
  fd,                     \* the client socket of the transport
  byte_code_free,         \* the deferred-free queue, oldest first
  units,                  \* per compressed pointer: "none", "live" or "queued"
  breakpoints,            \* the active breakpoints: a set of <<cp, offset>>
  debugger_stop_context,  \* JERRY_CONTEXT (debugger_stop_context): a frame or NULL
  stop_scope,             \* how VM_STOP is scoped: "any", "next" or "finish"
  debugger_message_delay, \* JERRY_CONTEXT (debugger_message_delay)
  pc,                     \* where the engine is
  depth,                  \* the active call frame
  rx,                     \* the receive call in progress, if any
  transfer,               \* the fragmented inbound transfer in progress
  source_status,          \* the result of the last wait_for_client_source
  out,                    \* the messages written to the socket by the last step
  ev,                     \* what the last step did
  hist,                   \* the resume command since the last breakpoint hit
  request,                \* the handshake request as far as it has been received
  tx,                     \* the frame jerry_debugger_send_tcp is writing
  sock,                   \* the bytes the socket has taken of that frame
  inbound,                \* the bytes the client wrote that no recv() has taken
  recv_buffer,            \* debugger_receive_buffer up to debugger_receive_buffer_offset
  seen,                   \* what the last turn of the receive loop looked at
  fragments,              \* the last stream the engine sent, message by message
  order,                  \* the frames written, the messages handled, the replies
  closes,                 \* the descriptors the last step called close() on, in order
  failed,                 \* the assertions that failed in the last step
  port,                   \* the last call of a port-level connection operation
  limits,                 \* the payload limits accept derived, and the buffer size
  peer                    \* the client's side of the connection: "open" or "closed"

\* The state of the transport below the messages.
sending == << tx, sock >>
receiving == << inbound, recv_buffer, seen, order >>
wire == << request, tx, sock, inbound, recv_buffer, seen, fragments, order, port,
          limits, peer >>

vars == << debugger_flags, fd, byte_code_free, units, breakpoints, debugger_stop_context,
           stop_scope, debugger_message_delay, pc, depth, rx, transfer, source_status,
           out, ev, hist, request, tx, sock, inbound, recv_buffer, seen, fragments,
           order, closes, failed, port, limits, peer >>

\* The session as one record, so that the operations are functions on it.  What
\* a step wrote, what it closed and the assertions it tripped over start empty
\* with every step; the status of wait_for_client_source is kept for as long
\* as that call is in progress.
Cur ==
  [ flags |-> debugger_flags, fd |-> fd, free |-> byte_code_free, units |-> units,
    bps |-> breakpoints, stop_context |-> debugger_stop_context, scope |-> stop_scope,
    delay |-> debugger_message_delay, transfer |-> transfer,
    status |-> IF pc = "source" THEN source_status ELSE "none",
    out |-> << >>, closes |-> << >>, failed |-> { } ]

Assign(s) ==
  /\ debugger_flags' = s.flags
  /\ fd' = s.fd
  /\ byte_code_free' = s.free
  /\ units' = s.units
  /\ breakpoints' = s.bps
  /\ debugger_stop_context' = s.stop_context
  /\ stop_scope' = s.scope
  /\ debugger_message_delay' = s.delay
  /\ transfer' = s.transfer
  /\ source_status' = s.status
  /\ out' = s.out
  /\ closes' = s.closes
  /\ failed' = s.failed

NoTransfer == [ kind |-> "none", size |-> 0, offset |-> 0 ]
NoStream == [ prev |-> 0, type |-> 0, sub_type |-> 0, items |-> << >>, msgs |-> << >>,
              ret |-> FALSE ]
NoneSeen == [ head |-> << >>, dispatched |-> FALSE, payload |-> << >>, unmasked |-> << >> ]
NoOrder == [ arrived |-> << >>, handled |-> << >>, replies |-> << >> ]
NoCall == [ op |-> "none", connection_p |-> 0, len |-> 0, sys |-> [ ret |-> 0, errno |-> "none" ],
            ret |-> "none", bytes |-> 0 ]
NoLimits == [ B |-> 0, max_send_size |-> 0, max_receive_size |-> 0 ]
NoTx == [ busy |-> FALSE, data |-> << >>, p |-> 0, left |-> 0, ret |-> "none" ]

\* The operators of C on unsigned values, bit by bit.
RECURSIVE BitAnd(_, _)
BitAnd(a, b) ==
  IF a = 0 \/ b = 0 THEN 0 ELSE (a % 2) * (b % 2) + 2 * BitAnd(a \div 2, b \div 2)

RECURSIVE BitOr(_, _)
BitOr(a, b) ==
  IF a = 0 THEN b ELSE IF b = 0 THEN a
  ELSE (IF a % 2 = 1 \/ b % 2 = 1 THEN 1 ELSE 0) + 2 * BitOr(a \div 2, b \div 2)

RECURSIVE BitXor(_, _)
BitXor(a, b) ==
  IF a = 0 THEN b ELSE IF b = 0 THEN a
  ELSE (IF a % 2 # b % 2 THEN 1 ELSE 0) + 2 * BitXor(a \div 2, b \div 2)
NoRx == [ active |-> FALSE, resume_exec |-> FALSE, expected |-> 0 ]


(***************************************************************************)
(* Messages.  An inbound message is its type and up to three arguments;    *)
(* an outbound message is its type and the compressed pointer and offset   *)
(* it carries (0 where it carries none).                                   *)
(***************************************************************************)
Msg(t, x, y, z) == [ type |-> t, a |-> x, b |-> y, c |-> z ]
OutMsg(t, cp, off) == [ type |-> t, cp |-> cp, offset |-> off ]

\* debugger.h, the groups of the client's message types.
BothModesTypes == JERRY_DEBUGGER_FREE_BYTE_CODE_CP .. JERRY_DEBUGGER_STOP
ParserWaitTypes == { JERRY_DEBUGGER_PARSER_RESUME }
ClientSourceTypes == JERRY_DEBUGGER_CLIENT_SOURCE .. JERRY_DEBUGGER_CONTEXT_RESET
ResumeTypes == JERRY_DEBUGGER_CONTINUE .. JERRY_DEBUGGER_FINISH
BreakpointKeepTypes == JERRY_DEBUGGER_GET_BACKTRACE .. JERRY_DEBUGGER_EVAL_PART
ThrowTypes == { JERRY_DEBUGGER_THROW, JERRY_DEBUGGER_THROW_PART }
BreakpointTypes == ResumeTypes \cup BreakpointKeepTypes \cup ThrowTypes
FirstTypes == { JERRY_DEBUGGER_CLIENT_SOURCE, JERRY_DEBUGGER_EVAL, JERRY_DEBUGGER_THROW }
PartTypes == { JERRY_DEBUGGER_CLIENT_SOURCE_PART, JERRY_DEBUGGER_EVAL_PART,
               JERRY_DEBUGGER_THROW_PART }

\* The primary mode of a flag set.
Mode(fl) ==
  IF JERRY_DEBUGGER_CLIENT_SOURCE_MODE \in fl THEN "source"
  ELSE IF JERRY_DEBUGGER_BREAKPOINT_MODE \in fl THEN "breakpoint"
  ELSE IF JERRY_DEBUGGER_PARSER_WAIT_MODE \in fl THEN "parse"
  ELSE "run"

\* A matrix that lets the resume commands through in run mode.
Accepted_resume_in_run(t, m) ==
  \/ t \in BothModesTypes
  \/ t \in ParserWaitTypes /\ m = "parse"
  \/ t \in ClientSourceTypes /\ m = "source"
  \/ t \in BreakpointTypes /\ m = "breakpoint"
  \/ t \in ResumeTypes /\ m = "run"

\* A matrix that serves backtraces and evaluations in run mode.
Accepted_inspect_in_run(t, m) ==
  \/ t \in BothModesTypes
  \/ t \in ParserWaitTypes /\ m = "parse"
  \/ t \in ClientSourceTypes /\ m = "source"
  \/ t \in BreakpointTypes /\ m = "breakpoint"
  \/ t \in BreakpointKeepTypes /\ m = "run"

\* A matrix that takes "both run and breakpoint modes" by the letter.
Accepted_two_modes(t, m) ==
  \/ t \in BothModesTypes /\ m \in { "run", "breakpoint" }
  \/ t \in ParserWaitTypes /\ m = "parse"
  \/ t \in ClientSourceTypes /\ m = "source"
  \/ t \in BreakpointTypes /\ m = "breakpoint"

\* A matrix that lets the resume commands through while the engine waits for
\* client source.
Accepted_resume_in_source(t, m) ==
  \/ t \in BothModesTypes
  \/ t \in ParserWaitTypes /\ m = "parse"
  \/ t \in ClientSourceTypes /\ m = "source"
  \/ t \in BreakpointTypes /\ m = "breakpoint"
  \/ t \in ResumeTypes /\ m = "source"

\* The acceptance matrix: is a message of type t legal in primary mode m?
Accepted(t, m) ==
  \/ t \in BothModesTypes
  \/ t \in ParserWaitTypes /\ m = "parse"
  \/ t \in ClientSourceTypes /\ m = "source"
  \/ t \in BreakpointTypes /\ m = "breakpoint"

(***************************************************************************)
(* The transport of part_002.                                              *)
(***************************************************************************)

\* jerry_debugger_free_unreferenced_byte_code: every unit of the deferred-free
\* queue is freed.
jerry_debugger_free_unreferenced_byte_code(s) ==
  [ s EXCEPT !.free = << >>,
             !.units = [ cp \in CPs |-> IF s.units[cp] = "queued" THEN "none" ELSE s.units[cp] ] ]

\* A close that forgets the deferred-free queue.
jerry_debugger_close_connection_tcp_no_flush(s) ==
  [ s EXCEPT !.flags = { JERRY_DEBUGGER_VM_IGNORE }, !.fd = NoFd ]

\* A close that clears every flag.
jerry_debugger_close_connection_tcp_no_ignore(s) ==
  jerry_debugger_free_unreferenced_byte_code([ s EXCEPT !.flags = { }, !.fd = NoFd ])

\* A close that frees the head of the deferred-free queue only.
jerry_debugger_close_connection_tcp_frees_head(s) ==
  [ s EXCEPT !.flags = { JERRY_DEBUGGER_VM_IGNORE }, !.fd = NoFd,
             !.free = IF @ = << >> THEN @ ELSE Tail(@),
             !.units = [ cp \in CPs |-> IF s.free # << >> /\ cp = Head(s.free)
                                        THEN "none" ELSE s.units[cp] ] ]

\* A close that flushes the deferred-free queue and leaves the session flags as
\* they are.
jerry_debugger_close_connection_tcp_keeps_flags(s) ==
  jerry_debugger_free_unreferenced_byte_code([ s EXCEPT !.fd = NoFd ])

\* A close that leaves CLIENT_SOURCE_MODE as it is.
jerry_debugger_close_connection_tcp_keeps_source_mode(s) ==
  jerry_debugger_free_unreferenced_byte_code(
    [ s EXCEPT !.flags = { JERRY_DEBUGGER_VM_IGNORE }
                           \cup (@ \cap { JERRY_DEBUGGER_CLIENT_SOURCE_MODE }),
               !.fd = NoFd ])

\* jerry_debugger_close_connection_tcp: it asserts that the session is
\* connected, leaves VM_IGNORE as the only flag, calls close() on fd
\* whatever fd is, and flushes the deferred-free queue.
jerry_debugger_close_connection_tcp(s) ==
  jerry_debugger_free_unreferenced_byte_code(
    [ s EXCEPT !.flags = { JERRY_DEBUGGER_VM_IGNORE }, !.fd = NoFd,
               !.closes = Append(@, s.fd),
               !.failed = IF JERRY_DEBUGGER_CONNECTED \in s.flags THEN @
                          ELSE @ \cup { "JERRY_DEBUGGER_CONNECTED" } ])

\* A send that fails and leaves the connection up.
jerry_debugger_send_tcp_keeps_open(s, io, m) ==
  IF io THEN [ s EXCEPT !.out = Append(@, m) ] ELSE s

\* jerry_debugger_send_tcp, through jerry_debugger_send_ws: io tells whether
\* send() takes the bytes (would-block is retried until it does) or fails
\* with another error, which closes the connection.
jerry_debugger_send_tcp(s, io, m) ==
  IF io THEN [ s EXCEPT !.out = Append(@, m) ]
  ELSE jerry_debugger_close_connection_tcp(s)

\* A send of the core: nothing is sent once the connection is gone.
jerry_debugger_send(s, io, m) ==
  IF JERRY_DEBUGGER_CONNECTED \in s.flags THEN jerry_debugger_send_tcp(s, io, m) ELSE s

Connected(s) == JERRY_DEBUGGER_CONNECTED \in s.flags

(***************************************************************************)
(* The handshake.  A request is a sequence of units: "GET" stands for the  *)
(* text "GET /jerry-debugger", "KEY" for "Sec-WebSocket-Key:", "CRLF" for  *)
(* a line end and "x" for any other byte; the client's stream is the       *)
(* sequence of pieces its recv calls deliver.                              *)
(***************************************************************************)
HandshakeUnits == { "GET", "KEY", "CRLF", "x" }

\* The bytes of a unit.
UnitSize(u) == CASE u = "GET" -> 19 [] u = "KEY" -> 18 [] u = "CRLF" -> 2 [] OTHER -> 1

RECURSIVE Bytes(_)
Bytes(units_) == IF units_ = << >> THEN 0 ELSE UnitSize(Head(units_)) + Bytes(Tail(units_))

\* jerry_process_handshake, one turn of its read loop.  The room a recv has
\* (one place is kept for the terminating zero), what the buffer holds after
\* a recv that found piece in the socket, and the test that ends the loop.
RequestRoom(buf) == request_buffer_size - 1 - Len(buf)

Taken(buf, piece) ==
  IF Len(piece) < RequestRoom(buf) THEN Len(piece) ELSE RequestRoom(buf)

Received(buf, piece) == buf \o SubSeq(piece, 1, Taken(buf, piece))

EndsRequest(buf) ==
  /\ Bytes(buf) > 4
  /\ Len(buf) >= 2
  /\ buf[Len(buf) - 1] = "CRLF"
  /\ buf[Len(buf)] = "CRLF"

\* jerry_process_handshake, its read loop over what the client sends, piece
\* by piece: "read" with the request, "small" when the buffer is full,
\* "error" when recv fails (hard: it does so once the pieces are used up),
\* "blocked" while the client stays silent.
RECURSIVE ReadRequest(_, _, _)
ReadRequest(buf, stream, hard) ==
  IF RequestRoom(buf) = 0 THEN [ result |-> "small", buf |-> buf ]
  ELSE IF stream = << >>
  THEN [ result |-> IF hard THEN "error" ELSE "blocked", buf |-> buf ]
  ELSE LET piece == Head(stream)
           got == Received(buf, piece)
           rest == IF Taken(buf, piece) < Len(piece)
                   THEN << SubSeq(piece, Taken(buf, piece) + 1, Len(piece)) >> \o Tail(stream)
                   ELSE Tail(stream)
       IN IF EndsRequest(got) THEN [ result |-> "read", buf |-> got ]
          ELSE ReadRequest(got, rest, hard)

\* A search that takes the key header anywhere in the request.
HasKeyHeader_anywhere(buf) == \E i \in 2 .. Len(buf) : buf[i] = "KEY"

\* jerry_process_handshake, its checks of the buffered request: the protocol
\* text at its start, and the key header at the start of a later line.
StartsWithGet(buf) == Len(buf) >= 1 /\ buf[1] = "GET"
HasKeyHeader(buf) == \E i \in 2 .. Len(buf) : buf[i] = "KEY" /\ buf[i - 1] = "CRLF"

\* The outcome of the request: "read" for a request that is answered.
RequestOutcome(stream, hard) ==
  LET r == ReadRequest(<< >>, stream, hard)
  IN IF r.result # "read" THEN r.result
     ELSE IF ~StartsWithGet(r.buf) THEN "format"
     ELSE IF ~HasKeyHeader(r.buf) THEN "key"
     ELSE "read"

\* The 101 response, as it is on the wire: not a frame, and no message.
HandshakeResponse == [ type |-> 0, http |-> 101 ]

\* jerry_process_handshake: its result and the session it leaves.  io tells
\* whether the response can be written.
jerry_process_handshake(s, stream, hard, io) ==
  IF RequestOutcome(stream, hard) # "read" THEN [ s |-> s, ok |-> FALSE ]
  ELSE LET w == jerry_debugger_send_tcp(s, io, HandshakeResponse)
       IN [ s |-> w, ok |-> Connected(w) ]

\* An 8-bit value that keeps seven bits only.
Uint8_seven_bits(n) == n % 128

\* The limits accept derives from the buffer size, in 8 bits.
Uint8(n) == n % 256

\* A receive limit that forgets the mask bytes of an inbound header.
max_receive_size_no_mask(B) ==
  LET size == Uint8(B - JERRY_DEBUGGER_WEBSOCKET_HEADER_SIZE)
  IN IF size > JERRY_DEBUGGER_WEBSOCKET_ONE_BYTE_LEN_MAX
     THEN JERRY_DEBUGGER_WEBSOCKET_ONE_BYTE_LEN_MAX ELSE size

max_send_size(B) ==
  LET size == Uint8(B - JERRY_DEBUGGER_WEBSOCKET_HEADER_SIZE)
  IN IF size > JERRY_DEBUGGER_WEBSOCKET_ONE_BYTE_LEN_MAX
     THEN JERRY_DEBUGGER_WEBSOCKET_ONE_BYTE_LEN_MAX ELSE size
max_receive_size(B) ==
  LET receive_header_size == Uint8(JERRY_DEBUGGER_WEBSOCKET_HEADER_SIZE
                                     + JERRY_DEBUGGER_WEBSOCKET_MASK_SIZE)
      size == Uint8(B - receive_header_size)
  IN IF size > JERRY_DEBUGGER_WEBSOCKET_ONE_BYTE_LEN_MAX
     THEN JERRY_DEBUGGER_WEBSOCKET_ONE_BYTE_LEN_MAX ELSE size

\* The sizes of a compressed pointer and the byte orders a build can have.
CpointerSizes == { 2, 4 }
Endians == { 0, 1 }

\* jerry_debugger_send_configuration_t
Configuration(max_message_size, cpointer_size, little_endian) ==
  [ type |-> JERRY_DEBUGGER_CONFIGURATION, max_message_size |-> max_message_size,
    cpointer_size |-> cpointer_size, little_endian |-> little_endian,
    version |-> JERRY_DEBUGGER_VERSION ]

\* jerry_debugger_send_configuration
jerry_debugger_send_configuration(s, io, max_message_size, build) ==
  jerry_debugger_send(s, io, Configuration(max_message_size, build.cpointer_size,
                                           build.little_endian))

\* An accept that leaves the engine running after the client has connected.
jerry_debugger_accept_connection_ws_no_stop(s, how, stream, build) ==
  IF how = "socket" THEN s
  ELSE IF how = "listen" THEN [ s EXCEPT !.closes = Append(@, ServerFd) ]
  ELSE
    LET c == [ s EXCEPT !.fd = ClientFd,
                        !.closes = Append(@, ServerFd),
                        !.flags = JERRY_DEBUGGER_SET_FLAGS(@, { JERRY_DEBUGGER_CONNECTED }) ]
        h == jerry_process_handshake(c, stream, how = "recv", how # "send")
        g == jerry_debugger_send_configuration(h.s, how # "config",
                                               max_receive_size(JERRY_DEBUGGER_MAX_BUFFER_SIZE),
                                               build)
    IN IF ~h.ok THEN jerry_debugger_close_connection_tcp(h.s)
       ELSE IF ~Connected(g) THEN g
       ELSE IF how = "fcntl" THEN jerry_debugger_close_connection_tcp(g)
       ELSE g

\* An accept that returns false and leaves the client's socket open when the
\* socket cannot be switched to non-blocking mode.
jerry_debugger_accept_connection_ws_leaks_on_fcntl(s, how, stream, build) ==
  IF how = "socket" THEN s
  ELSE IF how = "listen" THEN [ s EXCEPT !.closes = Append(@, ServerFd) ]
  ELSE
    LET c == [ s EXCEPT !.fd = ClientFd,
                        !.closes = Append(@, ServerFd),
                        !.flags = JERRY_DEBUGGER_SET_FLAGS(@, { JERRY_DEBUGGER_CONNECTED }) ]
        h == jerry_process_handshake(c, stream, how = "recv", how # "send")
        g == jerry_debugger_send_configuration(h.s, how # "config",
                                               max_receive_size(JERRY_DEBUGGER_MAX_BUFFER_SIZE),
                                               build)
    IN IF ~h.ok THEN jerry_debugger_close_connection_tcp(h.s)
       ELSE IF ~Connected(g) THEN g
       ELSE IF how = "fcntl" THEN g
       ELSE [ g EXCEPT !.flags = JERRY_DEBUGGER_SET_FLAGS(@, { JERRY_DEBUGGER_VM_STOP }),
                       !.stop_context = NULL, !.scope = "any" ]

\* jerry_debugger_accept_connection_ws.  how: the system call that fails
\* ("socket" for socket; "listen" for setsockopt, bind, listen or accept,
\* after each of which the listening socket is closed; "recv" for a recv of
\* the handshake; "send" for the response; "config" for the configuration
\* message; "fcntl"), or "ok" when none does.  The listening socket is closed
\* as soon as accept() has returned.
AcceptOutcomes == { "socket", "listen", "recv", "send", "config", "fcntl", "ok" }

jerry_debugger_accept_connection_ws(s, how, stream, build) ==
  IF how = "socket" THEN s
  ELSE IF how = "listen" THEN [ s EXCEPT !.closes = Append(@, ServerFd) ]
  ELSE
    LET c == [ s EXCEPT !.fd = ClientFd,
                        !.closes = Append(@, ServerFd),
                        !.flags = JERRY_DEBUGGER_SET_FLAGS(@, { JERRY_DEBUGGER_CONNECTED }) ]
        h == jerry_process_handshake(c, stream, how = "recv", how # "send")
        g == jerry_debugger_send_configuration(h.s, how # "config",
                                               max_receive_size(JERRY_DEBUGGER_MAX_BUFFER_SIZE),
                                               build)
    IN IF ~h.ok
       THEN \* a response that cannot be written has closed the connection
            \* inside jerry_debugger_send_tcp; accept closes once more
            jerry_debugger_close_connection_tcp(h.s)
       ELSE IF ~Connected(g) THEN g
       ELSE IF how = "fcntl" THEN jerry_debugger_close_connection_tcp(g)
       ELSE [ g EXCEPT !.flags = JERRY_DEBUGGER_SET_FLAGS(@, { JERRY_DEBUGGER_VM_STOP }),
                       !.stop_context = NULL, !.scope = "any" ]

\* What accept came to: the step it failed at, or "ok" (it returned true).
AcceptOutcome(how, stream) ==
  IF how \in { "socket", "listen" } THEN how
  ELSE LET r == RequestOutcome(stream, how = "recv")
       IN IF r = "error" THEN "recv"
          ELSE IF r # "read" THEN r
          ELSE IF how = "recv" THEN "ok"
          ELSE how

(***************************************************************************)
(* The dispatcher, jerry_debugger_process_message.  Its result is the new  *)
(* session, the return value (FALSE once the connection was closed on a    *)
(* protocol error) and the out-parameters resume_exec, expected_message.   *)
(***************************************************************************)
Result(s, ret, resume, expected) ==
  [ s |-> s, ret |-> ret, resume_exec |-> resume, expected |-> expected ]

\* A protocol error: the scratch buffer of a transfer is released and the
\* connection is closed.
ProtocolError(s, resume) ==
  Result(jerry_debugger_close_connection_tcp([ s EXCEPT !.transfer = NoTransfer ]),
         FALSE, resume, 0)

\* A reply was sent: the dispatcher goes on unless the send closed the connection.
Replied(s, resume) == Result(s, Connected(s), resume, 0)

\* A dispatcher that takes every pair for a known breakpoint location.
KnownBreakpoint_any(s, cp, off) == TRUE

KnownBreakpoint(s, cp, off) == cp \in CPs /\ s.units[cp] = "live" /\ off \in Offsets

RemoveCp(q, cp) == SelectSeq(q, LAMBDA x : x # cp)

TransferKind(t) ==
  CASE t \in { JERRY_DEBUGGER_CLIENT_SOURCE, JERRY_DEBUGGER_CLIENT_SOURCE_PART } -> "source"
    [] t \in { JERRY_DEBUGGER_EVAL, JERRY_DEBUGGER_EVAL_PART } -> "eval"
    [] OTHER -> "throw"

PartOf(t) ==
  CASE t = JERRY_DEBUGGER_CLIENT_SOURCE -> JERRY_DEBUGGER_CLIENT_SOURCE_PART
    [] t = JERRY_DEBUGGER_EVAL -> JERRY_DEBUGGER_EVAL_PART
    [] OTHER -> JERRY_DEBUGGER_THROW_PART

\* A fragmented transfer is complete: its handler runs.
TransferComplete(s, kind, io, resume) ==
  LET done == [ s EXCEPT !.transfer = NoTransfer ]
  IN CASE kind = "eval" ->
            Replied(jerry_debugger_send(done, io, OutMsg(JERRY_DEBUGGER_EVAL_RESULT_END, 0, 0)),
                    resume)
       [] kind = "source" ->
            Result([ done EXCEPT !.flags = JERRY_DEBUGGER_CLEAR_FLAGS(@,
                                               { JERRY_DEBUGGER_CLIENT_SOURCE_MODE }),
                                 !.status = "RECEIVED" ],
                   TRUE, TRUE, 0)
       [] OTHER ->
            Result([ done EXCEPT !.flags = JERRY_DEBUGGER_SET_FLAGS(@,
                                               { JERRY_DEBUGGER_THROW_ERROR_FLAG }) ],
                   TRUE, resume, 0)

\* A slice of len bytes is added to the transfer.
TransferSlice(s, t, len, io, resume) ==
  LET off == s.transfer.offset + len
  IN IF len < 1 \/ off > s.transfer.size THEN ProtocolError(s, resume)
     ELSE IF off = s.transfer.size THEN TransferComplete(s, s.transfer.kind, io, resume)
     ELSE Result([ s EXCEPT !.transfer.offset = off ], TRUE, resume,
                 IF t \in FirstTypes THEN PartOf(t) ELSE t)

\* The frames of a backtrace: the call frames from the top, at most max_depth.
BacktraceFrames(d, max_depth) ==
  IF max_depth = 0 \/ max_depth > d + 1 THEN d + 1 ELSE max_depth

\* The handler of an accepted message; d is the active (paused) call frame.
Handle(s, m, d, io, resume) ==
  LET t == m.type
  IN CASE t = JERRY_DEBUGGER_FREE_BYTE_CODE_CP ->
            IF m.a \in CPs /\ s.units[m.a] = "queued"
            THEN Result([ s EXCEPT !.free = RemoveCp(@, m.a), !.units[m.a] = "none" ],
                        TRUE, resume, 0)
            ELSE Result(s, TRUE, resume, 0)
       [] t = JERRY_DEBUGGER_UPDATE_BREAKPOINT ->
            IF ~KnownBreakpoint(s, m.b, m.c) THEN ProtocolError(s, resume)
            ELSE Result([ s EXCEPT !.bps = IF m.a # 0 THEN @ \cup { << m.b, m.c >> }
                                            ELSE @ \ { << m.b, m.c >> } ],
                        TRUE, resume, 0)
       [] t = JERRY_DEBUGGER_EXCEPTION_CONFIG ->
            Result([ s EXCEPT !.flags =
                       IF m.a # 0
                       THEN JERRY_DEBUGGER_CLEAR_FLAGS(@, { JERRY_DEBUGGER_VM_IGNORE_EXCEPTION })
                       ELSE JERRY_DEBUGGER_SET_FLAGS(@, { JERRY_DEBUGGER_VM_IGNORE_EXCEPTION }) ],
                   TRUE, resume, 0)
       [] t = JERRY_DEBUGGER_PARSER_CONFIG ->
            Result([ s EXCEPT !.flags =
                       IF m.a # 0
                       THEN JERRY_DEBUGGER_SET_FLAGS(@, { JERRY_DEBUGGER_PARSER_WAIT })
                       ELSE JERRY_DEBUGGER_CLEAR_FLAGS(@, { JERRY_DEBUGGER_PARSER_WAIT }) ],
                   TRUE, resume, 0)
       [] t = JERRY_DEBUGGER_MEMSTATS ->
            Replied(jerry_debugger_send(s, io, OutMsg(JERRY_DEBUGGER_MEMSTATS_RECEIVE, 0, 0)),
                    resume)
       [] t = JERRY_DEBUGGER_STOP ->
            Result([ s EXCEPT !.flags = JERRY_DEBUGGER_SET_FLAGS(@, { JERRY_DEBUGGER_VM_STOP }),
                              !.stop_context = NULL, !.scope = "any" ],
                   TRUE, resume, 0)
       [] t = JERRY_DEBUGGER_PARSER_RESUME ->
            Result([ s EXCEPT !.flags =
                       JERRY_DEBUGGER_CLEAR_FLAGS(@, { JERRY_DEBUGGER_PARSER_WAIT_MODE }) ],
                   TRUE, resume, 0)
       [] t = JERRY_DEBUGGER_NO_MORE_SOURCES ->
            Result([ s EXCEPT !.flags =
                       JERRY_DEBUGGER_UPDATE_FLAGS(@, { JERRY_DEBUGGER_CLIENT_NO_SOURCE },
                                                   { JERRY_DEBUGGER_CLIENT_SOURCE_MODE }),
                              !.status = "END" ],
                   TRUE, TRUE, 0)
       [] t = JERRY_DEBUGGER_CONTEXT_RESET ->
            Result([ s EXCEPT !.flags =
                       JERRY_DEBUGGER_UPDATE_FLAGS(@, { JERRY_DEBUGGER_CONTEXT_RESET_MODE },
                                                   { JERRY_DEBUGGER_CLIENT_SOURCE_MODE }),
                              !.status = "RESET" ],
                   TRUE, TRUE, 0)
       [] t = JERRY_DEBUGGER_CONTINUE ->
            Result([ s EXCEPT !.flags =
                       JERRY_DEBUGGER_CLEAR_FLAGS(@, { JERRY_DEBUGGER_BREAKPOINT_MODE,
                                                       JERRY_DEBUGGER_VM_STOP }),
                              !.scope = "any" ],
                   TRUE, TRUE, 0)
       [] t = JERRY_DEBUGGER_STEP ->
            Result([ s EXCEPT !.flags =
                       JERRY_DEBUGGER_UPDATE_FLAGS(@, { JERRY_DEBUGGER_VM_STOP },
                                                   { JERRY_DEBUGGER_BREAKPOINT_MODE }),
                              !.scope = "any" ],
                   TRUE, TRUE, 0)
       [] t = JERRY_DEBUGGER_NEXT ->
            Result([ s EXCEPT !.flags =
                       JERRY_DEBUGGER_UPDATE_FLAGS(@, { JERRY_DEBUGGER_VM_STOP },
                                                   { JERRY_DEBUGGER_BREAKPOINT_MODE }),
                              !.stop_context = d, !.scope = "next" ],
                   TRUE, TRUE, 0)
       [] t = JERRY_DEBUGGER_FINISH ->
            Result([ s EXCEPT !.flags =
                       JERRY_DEBUGGER_UPDATE_FLAGS(@, { JERRY_DEBUGGER_VM_STOP },
                                                   { JERRY_DEBUGGER_BREAKPOINT_MODE }),
                              !.stop_context = d, !.scope = "finish" ],
                   TRUE, TRUE, 0)
       [] t = JERRY_DEBUGGER_GET_BACKTRACE ->
            Replied(jerry_debugger_send(s, io, OutMsg(JERRY_DEBUGGER_BACKTRACE_END, 0,
                                                      BacktraceFrames(d, m.a))),
                    resume)
       [] t \in FirstTypes ->
            TransferSlice([ s EXCEPT !.transfer = [ kind |-> TransferKind(t), size |-> m.a,
                                                    offset |-> 0 ] ],
                          t, m.b, io, resume)
       [] OTHER -> \* a PART type
            TransferSlice(s, t, m.b, io, resume)

jerry_debugger_process_message(s, m, d, io, resume, expected) ==
  IF ~Accepted(m.type, Mode(s.flags)) THEN ProtocolError(s, resume)
  ELSE IF expected # 0 /\ m.type # expected THEN ProtocolError(s, resume)
  ELSE IF expected = 0 /\ m.type \in PartTypes THEN ProtocolError(s, resume)
  ELSE Handle(s, m, d, io, resume)

(***************************************************************************)
(* jerry_debugger_receive_ws, one turn of its loop.  The input is what the *)
(* recv() of this turn leaves in the receive buffer: a hard error, no      *)
(* complete frame, or a complete frame (its header checks, opcode and      *)
(* message).  The result tells whether the call returns, and what.         *)
(***************************************************************************)
HeaderKinds == { "ok", "fin", "size", "mask" }
Opcodes == { JERRY_DEBUGGER_WEBSOCKET_TEXT_FRAME, JERRY_DEBUGGER_WEBSOCKET_BINARY_FRAME,
             JERRY_DEBUGGER_WEBSOCKET_CLOSE_CONNECTION, JERRY_DEBUGGER_WEBSOCKET_PING,
             JERRY_DEBUGGER_WEBSOCKET_PONG }

RecvError == [ kind |-> "error", hdr |-> "ok", opcode |-> 0, msg |-> Msg(0, 0, 0, 0) ]
RecvNothing == [ kind |-> "none", hdr |-> "ok", opcode |-> 0, msg |-> Msg(0, 0, 0, 0) ]
Frame(h, o, m) == [ kind |-> "frame", hdr |-> h, opcode |-> o, msg |-> m ]

RxResult(s, r, done, ret) == [ s |-> s, rx |-> r, done |-> done, ret |-> ret ]

\* A stop request that is never held back.
StopHere_unscoped(s, d) == JERRY_DEBUGGER_VM_STOP \in s.flags

\* A FINISH that holds the stop back like a NEXT.
StopHere_finish_as_next(s, d) ==
  /\ JERRY_DEBUGGER_VM_STOP \in s.flags
  /\ \/ s.stop_context = NULL
     \/ s.scope = "any"
     \/ s.scope \in { "next", "finish" } /\ d <= s.stop_context

\* A receive that reports "resume" whenever no complete frame is there.
jerry_debugger_receive_ws_resume_on_empty(s, r, in, d, io) ==
  IF in.kind = "error"
  THEN RxResult(jerry_debugger_close_connection_tcp(s), r, TRUE, TRUE)
  ELSE IF in.kind = "none"
  THEN (IF r.expected # 0 THEN RxResult(s, r, FALSE, FALSE)
        ELSE RxResult(s, r, TRUE, TRUE))
  ELSE IF in.hdr # "ok"
  THEN RxResult(jerry_debugger_close_connection_tcp(s), r, TRUE, TRUE)
  ELSE IF in.opcode # JERRY_DEBUGGER_WEBSOCKET_BINARY_FRAME
  THEN RxResult(jerry_debugger_close_connection_tcp(s), r, TRUE, TRUE)
  ELSE LET p == jerry_debugger_process_message(s, in.msg, d, io, r.resume_exec, r.expected)
       IN IF ~p.ret THEN RxResult(p.s, r, TRUE, TRUE)
          ELSE RxResult(p.s, [ r EXCEPT !.resume_exec = p.resume_exec,
                                        !.expected = p.expected ],
                        FALSE, FALSE)

\* A receive that forgets, from one turn of its loop to the next, which
\* message type it expects.
jerry_debugger_receive_ws_forgets_expected(s, r, in, d, io) ==
  IF in.kind = "error"
  THEN RxResult(jerry_debugger_close_connection_tcp(s), r, TRUE, TRUE)
  ELSE IF in.kind = "none"
  THEN (IF r.expected # 0 THEN RxResult(s, r, FALSE, FALSE)
        ELSE RxResult(s, r, TRUE, r.resume_exec))
  ELSE IF in.hdr # "ok"
  THEN RxResult(jerry_debugger_close_connection_tcp(s), r, TRUE, TRUE)
  ELSE IF in.opcode # JERRY_DEBUGGER_WEBSOCKET_BINARY_FRAME
  THEN RxResult(jerry_debugger_close_connection_tcp(s), r, TRUE, TRUE)
  ELSE LET p == jerry_debugger_process_message(s, in.msg, d, io, r.resume_exec, 0)
       IN IF ~p.ret THEN RxResult(p.s, r, TRUE, TRUE)
          ELSE RxResult(p.s, [ r EXCEPT !.resume_exec = p.resume_exec,
                                        !.expected = p.expected ],
                        FALSE, FALSE)

\* A receive that reports "do not resume" when it has closed the connection
\* on a recv() error or on a frame it refuses.
jerry_debugger_receive_ws_false_on_close(s, r, in, d, io) ==
  IF in.kind = "error"
  THEN RxResult(jerry_debugger_close_connection_tcp(s), r, TRUE, FALSE)
  ELSE IF in.kind = "none"
  THEN (IF r.expected # 0 THEN RxResult(s, r, FALSE, FALSE)
        ELSE RxResult(s, r, TRUE, r.resume_exec))
  ELSE IF in.hdr # "ok"
  THEN RxResult(jerry_debugger_close_connection_tcp(s), r, TRUE, FALSE)
  ELSE IF in.opcode # JERRY_DEBUGGER_WEBSOCKET_BINARY_FRAME
  THEN RxResult(jerry_debugger_close_connection_tcp(s), r, TRUE, FALSE)
  ELSE LET p == jerry_debugger_process_message(s, in.msg, d, io, r.resume_exec, r.expected)
       IN IF ~p.ret THEN RxResult(p.s, r, TRUE, TRUE)
          ELSE RxResult(p.s, [ r EXCEPT !.resume_exec = p.resume_exec,
                                        !.expected = p.expected ],
                        FALSE, FALSE)

\* A receive that makes one recv() a call: it returns once the message it
\* found is handled.
jerry_debugger_receive_ws_one_recv(s, r, in, d, io) ==
  IF in.kind = "error"
  THEN RxResult(jerry_debugger_close_connection_tcp(s), r, TRUE, TRUE)
  ELSE IF in.kind = "none"
  THEN (IF r.expected # 0 THEN RxResult(s, r, FALSE, FALSE)
        ELSE RxResult(s, r, TRUE, r.resume_exec))
  ELSE IF in.hdr # "ok"
  THEN RxResult(jerry_debugger_close_connection_tcp(s), r, TRUE, TRUE)
  ELSE IF in.opcode # JERRY_DEBUGGER_WEBSOCKET_BINARY_FRAME
  THEN RxResult(jerry_debugger_close_connection_tcp(s), r, TRUE, TRUE)
  ELSE LET p == jerry_debugger_process_message(s, in.msg, d, io, r.resume_exec, r.expected)
       IN IF ~p.ret THEN RxResult(p.s, r, TRUE, TRUE)
          ELSE RxResult(p.s, [ r EXCEPT !.resume_exec = p.resume_exec,
                                        !.expected = p.expected ],
                        TRUE, p.resume_exec)

jerry_debugger_receive_ws(s, r, in, d, io) ==
  IF in.kind = "error"
  THEN RxResult(jerry_debugger_close_connection_tcp(s), r, TRUE, TRUE)
  ELSE IF in.kind = "none"
  THEN (IF r.expected # 0 THEN RxResult(s, r, FALSE, FALSE)
        ELSE RxResult(s, r, TRUE, r.resume_exec))
  ELSE IF in.hdr # "ok"
  THEN RxResult(jerry_debugger_close_connection_tcp(s), r, TRUE, TRUE)
  ELSE IF in.opcode # JERRY_DEBUGGER_WEBSOCKET_BINARY_FRAME
  THEN RxResult(jerry_debugger_close_connection_tcp(s), r, TRUE, TRUE)
  ELSE LET p == jerry_debugger_process_message(s, in.msg, d, io, r.resume_exec, r.expected)
       IN IF ~p.ret THEN RxResult(p.s, r, TRUE, TRUE)
          ELSE RxResult(p.s, [ r EXCEPT !.resume_exec = p.resume_exec,
                                        !.expected = p.expected ],
                        FALSE, FALSE)

\* The entry of jerry_debugger_receive_ws.
ReceiveEntry(s) == [ s EXCEPT !.delay = JERRY_DEBUGGER_MESSAGE_FREQUENCY ]

(***************************************************************************)
(* The engine's pause points.                                              *)
(***************************************************************************)

\* Does VM_STOP ask for a pause in call frame d?
StopHere(s, d) ==
  /\ JERRY_DEBUGGER_VM_STOP \in s.flags
  /\ \/ s.stop_context = NULL
     \/ s.scope = "any"
     \/ s.scope = "next" /\ d <= s.stop_context
     \/ s.scope = "finish" /\ d < s.stop_context

\* Must the engine pause at the safepoint <<cp, off>> of call frame d?
MustPause(s, cp, off, d) ==
  /\ JERRY_DEBUGGER_VM_IGNORE \notin s.flags
  /\ (StopHere(s, d) \/ << cp, off >> \in s.bps)

\* jerry_debugger_breakpoint_hit, up to its blocking poll.
jerry_debugger_breakpoint_hit(s, cp, off, d, io) ==
  LET m == [ s EXCEPT !.flags = JERRY_DEBUGGER_UPDATE_FLAGS(@, { JERRY_DEBUGGER_BREAKPOINT_MODE },
                                                            { JERRY_DEBUGGER_VM_STOP }) ]
      h == jerry_debugger_send(m, io, OutMsg(JERRY_DEBUGGER_BREAKPOINT_HIT, cp, off))
  IN IF Connected(h) THEN [ h EXCEPT !.stop_context = d, !.scope = "any" ] ELSE h

\* Every message of a sequence is sent, up to the first failure.
RECURSIVE SendAll(_, _, _)
SendAll(s, io, ms) ==
  IF ms = << >> THEN s ELSE SendAll(jerry_debugger_send(s, io, Head(ms)), io, Tail(ms))

\* The notifications of a parsed function, in order.
ParseNotifications(cp) ==
  << OutMsg(JERRY_DEBUGGER_SOURCE_CODE_END, 0, 0),
     OutMsg(JERRY_DEBUGGER_SOURCE_CODE_NAME_END, 0, 0),
     OutMsg(JERRY_DEBUGGER_FUNCTION_NAME_END, 0, 0),
     OutMsg(JERRY_DEBUGGER_PARSE_FUNCTION, 0, 0),
     OutMsg(JERRY_DEBUGGER_BREAKPOINT_LIST, 0, 0),
     OutMsg(JERRY_DEBUGGER_BREAKPOINT_OFFSET_LIST, 0, 0),
     OutMsg(JERRY_DEBUGGER_BYTE_CODE_CP, cp, 0) >>

\* What a step did: its kind, the type of the message it handled, the primary
\* mode it found (of an accept: its outcome), of a safepoint the place and
\* whether the engine paused there, and of a turn of the receive loop the
\* message's type, the unit an UPDATE_BREAKPOINT or FREE_BYTE_CODE_CP names
\* (of an UPDATE_BREAKPOINT the offset and the set byte as well;
\* of the first message of a transfer the total it announces, with the
\* length of the slice of a first or part message as the offset),
\* whether the call was already to report "resume", the message type the call
\* expected, and whether the step freed a queued unit; of a pause, whether it
\* is the first one.
Event(k, t, m, cp, off, hit) ==
  [ kind |-> k, type |-> t, mode |-> m, cp |-> cp, offset |-> off, hit |-> hit,
    resumed |-> FALSE, first |-> FALSE, freed |-> FALSE, expected |-> 0, set |-> 0 ]

\* The history of stepping: the resume command handled since the last hit, the
\* call frame it was handled in, whether a STOP followed it, and, once the
\* engine has paused again, the resume command that pause answers; and whether
\* the engine has yet to pause for the first time.
NoHist == [ resume |-> 0, frame |-> NULL, stop |-> FALSE, after |-> 0, fresh |-> TRUE ]

(***************************************************************************)
(* The inputs of the steps.                                                *)
(***************************************************************************)
\* The byte code unit of a script of one function.
FirstCp == CHOOSE cp \in CPs : \A other \in CPs : cp <= other

UnknownCp == MaxCp + 1                          \* names no byte code unit
UnknownType == JERRY_DEBUGGER_THROW_PART + 1    \* past the last type of the client

InMsgs ==
  { Msg(JERRY_DEBUGGER_FREE_BYTE_CODE_CP, cp, 0, 0) : cp \in CPs }
  \cup { Msg(JERRY_DEBUGGER_UPDATE_BREAKPOINT, set, FirstCp, off) :
           set \in { 0, 1 }, off \in Offsets }
  \cup { Msg(JERRY_DEBUGGER_UPDATE_BREAKPOINT, 1, UnknownCp, 0) }
  \cup { Msg(t, en, 0, 0) : t \in { JERRY_DEBUGGER_EXCEPTION_CONFIG, JERRY_DEBUGGER_PARSER_CONFIG },
                            en \in { 0, 1 } }
  \cup { Msg(t, 0, 0, 0) : t \in { JERRY_DEBUGGER_MEMSTATS, JERRY_DEBUGGER_STOP,
                                   JERRY_DEBUGGER_PARSER_RESUME, JERRY_DEBUGGER_NO_MORE_SOURCES,
                                   JERRY_DEBUGGER_CONTEXT_RESET, UnknownType } \cup ResumeTypes }
  \cup { Msg(JERRY_DEBUGGER_GET_BACKTRACE, n, 0, 0) : n \in 0 .. 1 }
  \cup { Msg(t, total, len, 0) : t \in FirstTypes, total \in { 1, MaxTotal }, len \in { 1, MaxTotal } }
  \cup { Msg(t, 0, len, 0) : t \in PartTypes, len \in { 1, MaxTotal } }

RecvInputs ==
  { RecvError, RecvNothing }
  \cup { Frame(h, JERRY_DEBUGGER_WEBSOCKET_BINARY_FRAME, Msg(JERRY_DEBUGGER_STOP, 0, 0, 0)) :
           h \in HeaderKinds \ { "ok" } }
  \cup { Frame("ok", o, Msg(JERRY_DEBUGGER_STOP, 0, 0, 0)) :
           o \in Opcodes \ { JERRY_DEBUGGER_WEBSOCKET_BINARY_FRAME } }
  \cup { Frame("ok", JERRY_DEBUGGER_WEBSOCKET_BINARY_FRAME, m) : m \in InMsgs }

(***************************************************************************)
(* The steps.                                                              *)
(***************************************************************************)
Init ==
  /\ debugger_flags = {}
  /\ fd = NoFd
  /\ byte_code_free = << >>
  /\ units = [ cp \in CPs |-> "none" ]
  /\ breakpoints = {}
  /\ debugger_stop_context = NULL
  /\ stop_scope = "any"
  /\ debugger_message_delay = 0
  /\ pc = "start"
  /\ depth = 0
  /\ rx = NoRx
  /\ transfer = NoTransfer
  /\ source_status = "none"
  /\ out = << >>
  /\ ev = Event("init", 0, "run", 0, 0, FALSE)
  /\ hist = NoHist
  /\ request = << >>
  /\ tx = NoTx
  /\ sock = << >>
  /\ inbound = << >>
  /\ recv_buffer = << >>
  /\ seen = NoneSeen
  /\ fragments = NoStream
  /\ order = NoOrder
  /\ closes = << >>
  /\ failed = { }
  /\ port = NoCall
  /\ limits = NoLimits
  /\ peer = "open"

\* A well-formed request (its key is empty).
ValidRequest == << "GET", "CRLF", "KEY", "CRLF", "CRLF" >>

Builds == [ cpointer_size : CpointerSizes, little_endian : Endians ]

\* jerry_debugger_init: the engine accepts one client, whose handshake
\* request comes in one piece.
Accept ==
  /\ pc = "start"
  /\ \E how \in AcceptOutcomes, build \in Builds :
       /\ Assign(jerry_debugger_accept_connection_ws(Cur, how, << ValidRequest >>, build))
       /\ ev' = Event("accept", 0, AcceptOutcome(how, << ValidRequest >>), 0, 0, FALSE)
       /\ request' = ValidRequest
  /\ pc' = "idle"
  /\ UNCHANGED << peer, limits, port, depth, rx, hist, sending, receiving, fragments >>


\* The engine parses a function of cps: a byte code unit comes to life and,
\* with a client attached, the parse notifications are sent.
ParseOf(cps) ==
  /\ pc = "idle"
  /\ \E cp \in cps, io \in BOOLEAN :
       /\ units[cp] = "none"
       /\ LET born == [ Cur EXCEPT !.units[cp] = "live" ]
              told == SendAll(born, io, ParseNotifications(cp))
              wait == Connected(told) /\ JERRY_DEBUGGER_PARSER_WAIT \in told.flags
              asked == jerry_debugger_send(told, io, OutMsg(JERRY_DEBUGGER_WAITING_AFTER_PARSE, 0, 0))
              held == IF Connected(asked)
                      THEN [ asked EXCEPT !.flags = JERRY_DEBUGGER_SET_FLAGS(@,
                                                      { JERRY_DEBUGGER_PARSER_WAIT_MODE }) ]
                      ELSE asked
          IN /\ Assign(IF wait THEN held ELSE told)
             /\ pc' = IF wait /\ Connected(held) THEN "parse" ELSE "idle"
             /\ ev' = Event("parse", 0, "run", cp, 0, FALSE)
  /\ UNCHANGED << depth, rx, hist, wire >>

Parse == ParseOf({ FirstCp })

\* The engine starts to run a script in the outermost call frame.
Run ==
  /\ pc = "idle"
  /\ \E cp \in CPs : units[cp] = "live"
  /\ pc' = "run"
  /\ depth' = 0
  /\ Assign(Cur)
  /\ ev' = Event("step", 0, "run", 0, 0, FALSE)
  /\ UNCHANGED << rx, hist, wire >>

\* The engine reaches the safepoint <<cp, off>>: it pauses there, or polls when
\* the countdown is at zero, or (breakpoints ignored) just goes on.  While the
\* countdown runs and nothing asks for a pause the byte codes up to the next
\* poll are dispatched in one step: no decision depends on how far the
\* countdown has come, and the entry of receive sets it again.
Safepoint ==
  /\ pc = "run"
  /\ ~rx.active
  /\ \E cp \in CPs, off \in Offsets, io \in BOOLEAN :
       /\ units[cp] = "live"
       /\ IF MustPause(Cur, cp, off, depth)
          THEN LET h == jerry_debugger_breakpoint_hit(Cur, cp, off, depth, io)
               IN /\ Assign(h)
                  /\ pc' = IF Connected(h) THEN "bp" ELSE "run"
                  /\ rx' = rx
                  /\ hist' = [ hist EXCEPT !.resume = 0, !.after = hist.resume,
                                            !.fresh = FALSE ]
                  /\ ev' = [ Event("safepoint", 0, Mode(debugger_flags), cp, off, TRUE)
                             EXCEPT !.first = hist.fresh ]
          ELSE /\ IF ~Connected(Cur) \/ JERRY_DEBUGGER_VM_IGNORE \in debugger_flags
                  THEN Assign(Cur) /\ rx' = rx
                  ELSE IF debugger_message_delay > 0
                  THEN Assign([ Cur EXCEPT !.delay = 0 ]) /\ rx' = rx
                  ELSE Assign(ReceiveEntry(Cur)) /\ rx' = [ NoRx EXCEPT !.active = TRUE ]
               /\ pc' = pc
               /\ hist' = hist
               /\ ev' = Event("safepoint", 0, Mode(debugger_flags), cp, off, FALSE)
  /\ UNCHANGED << depth, wire >>

\* The running script calls a function.
Call ==
  /\ pc = "run"
  /\ ~rx.active
  /\ depth < MaxDepth
  /\ depth' = depth + 1
  /\ Assign(Cur)
  /\ ev' = Event("step", 0, "run", 0, 0, FALSE)
  /\ UNCHANGED << pc, rx, hist, wire >>

\* The active function returns; the script ends when the outermost one does.
Return ==
  /\ pc = "run"
  /\ ~rx.active
  /\ IF depth > 0 THEN depth' = depth - 1 /\ pc' = pc
     ELSE depth' = 0 /\ pc' = "idle"
  /\ Assign(Cur)
  /\ ev' = Event("step", 0, "run", 0, 0, FALSE)
  /\ UNCHANGED << rx, hist, wire >>

\* The engine releases a byte code unit: with a client attached it is put on
\* the deferred-free queue and RELEASE_BYTE_CODE_CP is sent.
Release ==
  /\ pc \in { "idle", "run" }
  /\ ~rx.active
  /\ \E cp \in CPs, io \in BOOLEAN :
       /\ units[cp] = "live"
       /\ LET gone == [ Cur EXCEPT !.bps = { b \in @ : b[1] # cp } ]
          IN IF Connected(Cur)
             THEN Assign(jerry_debugger_send([ gone EXCEPT !.units[cp] = "queued",
                                                           !.free = Append(@, cp) ],
                                             io, OutMsg(JERRY_DEBUGGER_RELEASE_BYTE_CODE_CP, cp, 0)))
             ELSE Assign([ gone EXCEPT !.units[cp] = "none" ])
       /\ ev' = Event("release", 0, "run", cp, 0, FALSE)
  /\ UNCHANGED << pc, depth, rx, hist, wire >>

\* jerry_debugger_wait_for_client_source, up to its blocking poll.
WaitForClientSource ==
  /\ pc = "idle"
  /\ \E io \in BOOLEAN :
       LET asked == jerry_debugger_send(Cur, io, OutMsg(JERRY_DEBUGGER_WAIT_FOR_SOURCE, 0, 0))
       IN /\ IF Connected(asked)
             THEN /\ Assign([ asked EXCEPT !.flags = JERRY_DEBUGGER_UPDATE_FLAGS(@,
                                                       { JERRY_DEBUGGER_CLIENT_SOURCE_MODE },
                                                       { JERRY_DEBUGGER_CLIENT_NO_SOURCE }),
                                           !.status = "none" ])
                  /\ pc' = "source"
             ELSE /\ Assign([ asked EXCEPT !.status = "FAILED" ])
                  /\ pc' = "idle"
          /\ ev' = Event("wait_source", 0, "run", 0, 0, FALSE)
  /\ UNCHANGED << depth, rx, hist, wire >>

\* A blocked engine wakes from its sleep and calls receive again.
PollBlocking ==
  /\ pc \in { "bp", "parse", "source" }
  /\ ~rx.active
  /\ rx' = [ NoRx EXCEPT !.active = TRUE ]
  /\ Assign(ReceiveEntry(Cur))
  /\ ev' = Event("poll", 0, "run", 0, 0, FALSE)
  /\ UNCHANGED << pc, depth, hist, wire >>

\* Where the engine goes on when receive returns ret.
AfterReceive(at, s, ret) ==
  CASE at = "bp" -> IF ret THEN "run" ELSE "bp"
    [] at = "parse" ->
         IF Connected(s) /\ JERRY_DEBUGGER_PARSER_WAIT_MODE \in s.flags THEN "parse" ELSE "idle"
    [] at = "source" ->
         IF Connected(s) /\ JERRY_DEBUGGER_CLIENT_SOURCE_MODE \in s.flags THEN "source"
         ELSE IF Connected(s) /\ s.status \in { "END", "RESET" } THEN "done"
         ELSE "idle"
    [] OTHER -> at

\* The engine leaves the blocking poll of a breakpoint: a pending throw is
\* raised in the paused frame.
Resumed(s) ==
  [ s EXCEPT !.flags = JERRY_DEBUGGER_CLEAR_FLAGS(@, { JERRY_DEBUGGER_THROW_ERROR_FLAG }) ]

\* Can the handling of this input write to the socket?
Replies(in) ==
  /\ in.kind = "frame"
  /\ in.msg.type \in { JERRY_DEBUGGER_MEMSTATS, JERRY_DEBUGGER_GET_BACKTRACE,
                       JERRY_DEBUGGER_EVAL, JERRY_DEBUGGER_EVAL_PART }

EventKind(in) ==
  CASE in.kind = "error" -> "recv_error"
    [] in.kind = "none" -> "recv_nothing"
    [] in.hdr # "ok" -> "malformed"
    [] in.opcode # JERRY_DEBUGGER_WEBSOCKET_BINARY_FRAME -> "opcode"
    [] OTHER -> "msg"

HistAfter(h, d, in, r) ==
  IF EventKind(in) # "msg" \/ ~Connected(r.s) THEN h
  ELSE IF in.msg.type \in ResumeTypes
  THEN [ h EXCEPT !.resume = in.msg.type, !.frame = d, !.stop = FALSE, !.after = 0 ]
  ELSE IF in.msg.type = JERRY_DEBUGGER_STOP THEN [ h EXCEPT !.stop = TRUE ]
  ELSE h

\* One turn of the loop of the receive call in progress, the client's frames
\* being drawn from inputs; track tells whether the resume history is kept.
ReceiveOf(inputs, track) ==
  /\ rx.active
  /\ \E in \in inputs, io \in BOOLEAN :
       /\ (io \/ Replies(in))
       /\ LET r == jerry_debugger_receive_ws(Cur, rx, in, depth, io)
              lost == pc = "source" /\ r.done /\ ~Connected(r.s)
          IN /\ Assign(IF lost THEN [ r.s EXCEPT !.status = "FAILED" ]
                       ELSE IF pc = "bp" /\ r.done /\ r.ret THEN Resumed(r.s)
                       ELSE r.s)
             /\ rx' = IF r.done THEN NoRx ELSE r.rx
             /\ pc' = IF r.done THEN AfterReceive(pc, r.s, r.ret) ELSE pc
             /\ hist' = IF track THEN HistAfter(hist, depth, in, r) ELSE hist
             /\ ev' = [ Event(EventKind(in), IF EventKind(in) = "msg" THEN in.msg.type ELSE 0,
                              Mode(debugger_flags),
                              IF /\ EventKind(in) = "msg"
                                 /\ in.msg.type = JERRY_DEBUGGER_UPDATE_BREAKPOINT
                              THEN in.msg.b
                              ELSE IF /\ EventKind(in) = "msg"
                                      /\ in.msg.type = JERRY_DEBUGGER_FREE_BYTE_CODE_CP
                              THEN in.msg.a
                              ELSE IF EventKind(in) = "msg" /\ in.msg.type \in FirstTypes
                              THEN in.msg.a ELSE 0,
                              IF EventKind(in) = "msg" /\ in.msg.type \in FirstTypes \cup PartTypes
                              THEN in.msg.b
                              ELSE IF /\ EventKind(in) = "msg"
                                      /\ in.msg.type = JERRY_DEBUGGER_UPDATE_BREAKPOINT
                              THEN in.msg.c ELSE 0,
                              FALSE)
                        EXCEPT !.resumed = rx.resume_exec,
                               !.set = IF /\ EventKind(in) = "msg"
                                          /\ in.msg.type = JERRY_DEBUGGER_UPDATE_BREAKPOINT
                                       THEN in.msg.a ELSE 0,
                               !.expected = rx.expected,
                               !.freed = /\ EventKind(in) = "msg"
                                         /\ in.msg.type = JERRY_DEBUGGER_FREE_BYTE_CODE_CP
                                         /\ in.msg.a \in CPs
                                         /\ units[in.msg.a] = "queued"
                                         /\ r.s.units[in.msg.a] = "none" ]
  /\ UNCHANGED << depth, wire >>

Receive == ReceiveOf(RecvInputs, FALSE)

\* The client of a stepping session: it sets and clears breakpoints, stops and
\* resumes the engine, or goes away.
StepInputs ==
  { in \in RecvInputs :
      \/ in.kind # "frame"
      \/ /\ in.hdr = "ok"
         /\ in.opcode = JERRY_DEBUGGER_WEBSOCKET_BINARY_FRAME
         /\ \/ in.msg.type \in ResumeTypes \cup { JERRY_DEBUGGER_STOP }
            \/ in.msg.type = JERRY_DEBUGGER_UPDATE_BREAKPOINT /\ in.msg.b # UnknownCp }

ReceiveStepping == ReceiveOf(StepInputs, TRUE)

Next ==
  \/ Accept
  \/ Parse
  \/ Run
  \/ Safepoint
  \/ Return
  \/ Release
  \/ WaitForClientSource
  \/ PollBlocking
  \/ Receive

Spec == Init /\ [][Next]_vars

\* The release of byte code units under every client: the engine parses and
\* releases any of its units, and the client acknowledges a release, names a
\* unit that was not released, sends something else, or goes away.
ParseAny == ParseOf(CPs)

ReleaseInputs ==
  { RecvError, RecvNothing }
  \cup { Frame("ok", JERRY_DEBUGGER_WEBSOCKET_BINARY_FRAME, m) :
           m \in { Msg(JERRY_DEBUGGER_FREE_BYTE_CODE_CP, cp, 0, 0) : cp \in CPs \cup { UnknownCp } }
                   \cup { Msg(t, 0, 0, 0) : t \in { JERRY_DEBUGGER_STOP, JERRY_DEBUGGER_CONTINUE,
                                                    JERRY_DEBUGGER_PARSER_RESUME } } }

ReceiveRelease == ReceiveOf(ReleaseInputs, FALSE)

NextRelease ==
  \/ Accept
  \/ ParseAny
  \/ Run
  \/ Safepoint
  \/ Return
  \/ Release
  \/ PollBlocking
  \/ ReceiveRelease

\* The engine goes on: it is single-threaded and polls its client from its own
\* loop, so a step that can be taken is taken in the end.  What the client
\* sends stays free.
SpecRelease == Init /\ [][NextRelease]_vars /\ WF_vars(NextRelease)

\* The handshake under every client, recv by recv.  accept() returns the
\* client's socket and the handshake starts to read.
HandshakeStart ==
  /\ pc = "start"
  /\ Assign([ Cur EXCEPT !.fd = ClientFd,
                         !.flags = JERRY_DEBUGGER_SET_FLAGS(@, { JERRY_DEBUGGER_CONNECTED }) ])
  /\ pc' = "handshake"
  /\ request' = << >>
  /\ ev' = Event("connect", 0, "run", 0, 0, FALSE)
  /\ UNCHANGED << peer, limits, port, depth, rx, hist, sending, receiving, fragments >>

\* What one recv of the handshake can deliver: at most MaxPiece units.
Pieces == UNION { [ 1 .. n -> HandshakeUnits ] : n \in 1 .. MaxPiece }

\* A turn of the read loop that does not end it: a recv delivers a piece that
\* fits the room, and the request is not complete.
HandshakeRecv ==
  /\ pc = "handshake"
  /\ RequestRoom(request) > 0
  /\ \E piece \in Pieces :
       /\ Len(piece) <= RequestRoom(request)
       /\ ~EndsRequest(Received(request, piece))
       /\ request' = Received(request, piece)
  /\ Assign(Cur)
  /\ ev' = Event("handshake", 0, "run", 0, 0, FALSE)
  /\ UNCHANGED << peer, limits, port, pc, depth, rx, hist, sending, receiving, fragments >>

\* The turn that ends the read loop (no room is left, the recv fails, or the
\* request is complete) and with it the rest of accept.
HandshakeEnd ==
  /\ pc = "handshake"
  /\ \E how \in { "recv", "send", "ok" }, last \in Pieces \cup { << >> } :
       /\ Len(last) <= RequestRoom(request)
       /\ last = << >> => (how = "recv" \/ RequestRoom(request) = 0)
       /\ last # << >> => (how # "recv" /\ EndsRequest(Received(request, last)))
       /\ LET stream == << Received(request, last) >>
              build == [ cpointer_size |-> 2, little_endian |-> 1 ]
          IN /\ Assign(jerry_debugger_accept_connection_ws(Cur, how, stream, build))
             /\ ev' = Event("accept", 0, AcceptOutcome(how, stream), 0, 0, FALSE)
             /\ request' = Received(request, last)
  /\ pc' = "idle"
  /\ UNCHANGED << peer, limits, port, depth, rx, hist, sending, receiving, fragments >>

NextHandshake ==
  \/ HandshakeStart
  \/ HandshakeRecv
  \/ HandshakeEnd

SpecHandshake == Init /\ [][NextHandshake]_vars

\* The handshake under a client that may close its side of the connection
\* before the request is complete.  From then on recv() has nothing more to
\* deliver and returns 0.

\* The client closes its side.
HandshakeShutdown ==
  /\ pc = "handshake"
  /\ peer = "open"
  /\ peer' = "closed"
  /\ UNCHANGED << debugger_flags, fd, byte_code_free, units, breakpoints,
                  debugger_stop_context, stop_scope, debugger_message_delay, pc,
                  depth, rx, transfer, source_status, out, ev, hist, request, tx,
                  sock, inbound, recv_buffer, seen, fragments, order, closes, failed,
                  port, limits >>

\* A turn of the read loop whose recv returns 0: size is not negative, the
\* end of the request stays where it is, and the test for the blank line
\* sees the bytes it saw in the turn before.
HandshakeEof ==
  /\ pc = "handshake"
  /\ peer = "closed"
  /\ RequestRoom(request) > 0
  /\ ~EndsRequest(Received(request, << >>))
  /\ request' = Received(request, << >>)
  /\ Assign(Cur)
  /\ ev' = Event("handshake", 0, "run", 0, 0, FALSE)
  /\ UNCHANGED << peer, limits, port, pc, depth, rx, hist, sending, receiving, fragments >>

\* The turns of the read loop while the client sends.
HandshakeRecvOpen == peer = "open" /\ HandshakeRecv

\* The end of the read loop: a recv of an open connection delivers the
\* rest or fails, or no room is left.
HandshakeEndOpen == (peer = "open" \/ RequestRoom(request) = 0) /\ HandshakeEnd

\* The server's side of the handshake: accept and the turns of its read loop.
HandshakeTurn ==
  \/ HandshakeStart
  \/ HandshakeRecvOpen
  \/ HandshakeEndOpen
  \/ HandshakeEof

NextHandshakeEof ==
  \/ HandshakeStart
  \/ HandshakeRecvOpen
  \/ HandshakeEndOpen
  \/ HandshakeShutdown
  \/ HandshakeEof

\* accept() is a blocking call on a blocking socket: the server takes every
\* turn of the loop it can take, and a client that has not closed its side
\* goes on sending.  When the client closes its side is left open.
SpecHandshakeEof == Init /\ [][NextHandshakeEof]_vars /\ WF_vars(HandshakeTurn)

(***************************************************************************)
(* The frames the server writes, send() by send().                         *)
(***************************************************************************)
\* A frame that goes out as a text frame.
SendHeader_text(data_size) ==
  << BitOr(JERRY_DEBUGGER_WEBSOCKET_FIN_BIT, JERRY_DEBUGGER_WEBSOCKET_TEXT_FRAME),
     Uint8(data_size) >>

\* jerry_debugger_send_ws: the two header bytes it puts before the message.
SendHeader(data_size) ==
  << BitOr(JERRY_DEBUGGER_WEBSOCKET_FIN_BIT, JERRY_DEBUGGER_WEBSOCKET_BINARY_FRAME),
     Uint8(data_size) >>

\* The message of a frame: its bytes are told apart by their place.
Payload(data_size) == [ i \in 1 .. data_size |-> i ]

\* jerry_debugger_send_ws: a message of data_size bytes lies in the send
\* buffer (the caller keeps to debugger_max_send_size); the header is put
\* before it and jerry_debugger_send_tcp is to write header and message.
SendBegin ==
  /\ pc = "idle"
  /\ JERRY_DEBUGGER_CONNECTED \in debugger_flags
  /\ ~tx.busy
  /\ \E data_size \in 0 .. max_send_size(JERRY_DEBUGGER_MAX_BUFFER_SIZE) :
       tx' = [ busy |-> TRUE, data |-> SendHeader(data_size) \o Payload(data_size), p |-> 0,
               left |-> data_size + JERRY_DEBUGGER_WEBSOCKET_HEADER_SIZE, ret |-> "none" ]
  /\ sock' = << >>
  /\ Assign(Cur)
  /\ ev' = Event("send_ws", 0, "run", 0, 0, FALSE)
  /\ UNCHANGED << peer, limits, port, pc, depth, rx, hist, request, receiving, fragments >>

\* A send that starts at the head of the data every time.
Written_from_start(data, p, sent_bytes) == SubSeq(data, 1, sent_bytes)

\* The bytes a send() takes: sent_bytes of them from data_p, which is p bytes
\* into the data.
Written(data, p, sent_bytes) == SubSeq(data, p + 1, p + sent_bytes)

\* What a send() of left bytes can come to: the number of bytes it took
\* ("sent"), or "again" (EWOULDBLOCK), or "error".
SendResults(left) ==
  { [ kind |-> "sent", n |-> n ] : n \in { k \in 0 .. left : k <= MaxWrite \/ k = left } }
    \cup { [ kind |-> "again", n |-> 0 ], [ kind |-> "error", n |-> 0 ] }

\* jerry_debugger_send_tcp, one turn of its loop.
SendTurn ==
  /\ tx.busy
  /\ \E r \in SendResults(tx.left) :
       LET sent_bytes == r.n IN
       CASE r.kind = "error" ->
              /\ Assign(jerry_debugger_close_connection_tcp(Cur))
              /\ tx' = [ tx EXCEPT !.busy = FALSE, !.ret = "false" ]
              /\ sock' = sock
              /\ ev' = Event("send", 0, "error", 0, 0, FALSE)
         [] r.kind = "again" ->
              /\ Assign(Cur)
              /\ UNCHANGED sending
              /\ ev' = Event("send", 0, "again", 0, 0, FALSE)
         [] OTHER ->
              /\ Assign(Cur)
              /\ sock' = sock \o Written(tx.data, tx.p, sent_bytes)
              /\ tx' = [ tx EXCEPT !.p = @ + sent_bytes, !.left = @ - sent_bytes,
                                   !.busy = tx.left - sent_bytes > 0,
                                   !.ret = IF tx.left - sent_bytes > 0 THEN "none" ELSE "true" ]
              /\ ev' = Event("send", 0, "sent", 0, 0, FALSE)
  /\ UNCHANGED << peer, limits, port, pc, depth, rx, hist, request, receiving, fragments >>

NextSend ==
  \/ Accept
  \/ SendBegin
  \/ SendTurn

SpecSend == Init /\ [][NextSend]_vars

(***************************************************************************)
(* The frames the client writes, recv() by recv().                         *)
(***************************************************************************)
\* sizeof (jerry_debugger_receive_header_t): ws_opcode, size and mask[4].
ReceiveHeaderSize ==
  JERRY_DEBUGGER_WEBSOCKET_HEADER_SIZE + JERRY_DEBUGGER_WEBSOCKET_MASK_SIZE

\* The message size the second byte of a frame declares.
MessageSize(buf) == BitAnd(buf[2], JERRY_DEBUGGER_WEBSOCKET_LENGTH_MASK)

\* A header check that lets frames without a mask through.
HeaderCheck_no_mask(buf, max) ==
  IF BitAnd(buf[1], 255 - JERRY_DEBUGGER_WEBSOCKET_OPCODE_MASK) # JERRY_DEBUGGER_WEBSOCKET_FIN_BIT
  THEN "fin"
  ELSE IF MessageSize(buf) > max THEN "size"
  ELSE "ok"

\* The first check of a frame: FIN and no reserved bit (the first byte, an
\* uint8_t, under ~OPCODE_MASK), the declared size, the mask bit.
HeaderCheck(buf, max) ==
  IF BitAnd(buf[1], 255 - JERRY_DEBUGGER_WEBSOCKET_OPCODE_MASK) # JERRY_DEBUGGER_WEBSOCKET_FIN_BIT
  THEN "fin"
  ELSE IF MessageSize(buf) > max THEN "size"
  ELSE IF BitAnd(buf[2], JERRY_DEBUGGER_WEBSOCKET_MASK_BIT) = 0 THEN "mask"
  ELSE "ok"

\* The data bytes under the four mask bytes, taken in turn.
Unmask(data, mask) ==
  [ i \in 1 .. Len(data) |->
      BitXor(data[i], mask[((i - 1) % JERRY_DEBUGGER_WEBSOCKET_MASK_SIZE) + 1]) ]

\* The message the dispatcher reads in a payload: the type in its first byte.
Decode(payload) ==
  Msg(IF Len(payload) >= 1 THEN payload[1] ELSE 0,
      IF Len(payload) >= 2 THEN payload[2] ELSE 0,
      IF Len(payload) >= 3 THEN payload[3] ELSE 0,
      IF Len(payload) >= 4 THEN payload[4] ELSE 0)

\* A turn of the loop that lets the mask pointer run on into the data.
UnmaskTurn_no_wrap(st, mask_end_p, data_end_p) ==
  IF st.data_p >= data_end_p THEN st
  ELSE [ buf |-> [ st.buf EXCEPT ![st.data_p] = BitXor(st.buf[st.data_p], st.buf[st.mask_p]) ],
         data_p |-> st.data_p + 1,
         mask_p |-> st.mask_p + 1 ]

\* One turn of the loop that unmasks the data bytes where they lie; the
\* pointers are positions in the buffer, from 1.  Past the end of the data a
\* turn does nothing.
UnmaskTurn(st, mask_end_p, data_end_p) ==
  IF st.data_p >= data_end_p THEN st
  ELSE [ buf |-> [ st.buf EXCEPT ![st.data_p] = BitXor(st.buf[st.data_p], st.buf[st.mask_p]) ],
         data_p |-> st.data_p + 1,
         mask_p |-> IF st.mask_p + 1 >= mask_end_p
                    THEN st.mask_p + 1 - JERRY_DEBUGGER_WEBSOCKET_MASK_SIZE
                    ELSE st.mask_p + 1 ]

\* The loop, eight turns at a time.
RECURSIVE UnmaskLoop(_, _, _)
UnmaskLoop(st, mask_end_p, data_end_p) ==
  IF st.data_p >= data_end_p THEN st.buf
  ELSE LET t1 == UnmaskTurn(st, mask_end_p, data_end_p)
           t2 == UnmaskTurn(t1, mask_end_p, data_end_p)
           t3 == UnmaskTurn(t2, mask_end_p, data_end_p)
           t4 == UnmaskTurn(t3, mask_end_p, data_end_p)
           t5 == UnmaskTurn(t4, mask_end_p, data_end_p)
           t6 == UnmaskTurn(t5, mask_end_p, data_end_p)
           t7 == UnmaskTurn(t6, mask_end_p, data_end_p)
           t8 == UnmaskTurn(t7, mask_end_p, data_end_p)
       IN UnmaskLoop(t8, mask_end_p, data_end_p)

\* The receive buffer once the frame at its head is unmasked.
UnmaskInPlace(buf) ==
  LET data_p == ReceiveHeaderSize + 1
  IN UnmaskLoop([ buf |-> buf, data_p |-> data_p,
                  mask_p |-> data_p - JERRY_DEBUGGER_WEBSOCKET_MASK_SIZE ],
                data_p, data_p + MessageSize(buf))

\* The payload of the frame at the head of the buffer, unmasked.
PayloadAt(buf) ==
  SubSeq(UnmaskInPlace(buf), ReceiveHeaderSize + 1, ReceiveHeaderSize + MessageSize(buf))

\* What jerry_debugger_receive_ws finds at the head of its buffer after a
\* recv(): nothing yet, a frame it refuses, or a frame with its message.
FrameAt(buf, max) ==
  IF Len(buf) < ReceiveHeaderSize THEN RecvNothing
  ELSE LET opcode == BitAnd(buf[1], JERRY_DEBUGGER_WEBSOCKET_OPCODE_MASK)
       IN IF HeaderCheck(buf, max) # "ok" THEN Frame(HeaderCheck(buf, max), opcode, Msg(0, 0, 0, 0))
          ELSE IF opcode # JERRY_DEBUGGER_WEBSOCKET_BINARY_FRAME
          THEN Frame("ok", opcode, Msg(0, 0, 0, 0))
          ELSE IF Len(buf) < MessageSize(buf) + ReceiveHeaderSize THEN RecvNothing
          ELSE Frame("ok", opcode, Decode(PayloadAt(buf)))

\* The frames of the client.  First bytes: FIN with each opcode the transport
\* names and one it does not, BINARY without FIN, BINARY with a reserved bit.
FirstBytes == { 130, 129, 136, 137, 138, 131, 2, 194 }
Masks == { << 0, 0, 0, 0 >>, << 1, 2, 4, 255 >> }
SmallPayloads ==
  { << >>, << JERRY_DEBUGGER_STOP >>, << JERRY_DEBUGGER_MEMSTATS >>,
    << JERRY_DEBUGGER_EXCEPTION_CONFIG, 1 >>, << JERRY_DEBUGGER_CONTINUE >> }
BigPayload(n) == [ i \in 1 .. n |-> IF i = 1 THEN UnknownType ELSE i ]

\* A frame as a client writes it: with a mask (RFC 6455), or without one.
WsFrame(byte0, masked, mask, payload) ==
  << byte0, (IF masked THEN JERRY_DEBUGGER_WEBSOCKET_MASK_BIT ELSE 0) + Len(payload) >>
    \o (IF masked THEN mask \o Unmask(payload, mask) ELSE payload)

ClientFrames ==
  { WsFrame(b, TRUE, m, p) : b \in FirstBytes, m \in Masks, p \in SmallPayloads }
    \cup { WsFrame(b, FALSE, << >>, p) : b \in FirstBytes, p \in SmallPayloads }
    \cup { WsFrame(130, TRUE, << 1, 2, 4, 255 >>, BigPayload(n)) :
             n \in { max_receive_size(JERRY_DEBUGGER_MAX_BUFFER_SIZE),
                      max_receive_size(JERRY_DEBUGGER_MAX_BUFFER_SIZE) + 1 } }

\* The frames a client writes behind bytes that are still on their way.
FollowFrames ==
  { WsFrame(b, TRUE, << 1, 2, 4, 255 >>, << JERRY_DEBUGGER_STOP >>) : b \in { 130, 129 } }

ClientWrite ==
  /\ pc = "idle"
  /\ JERRY_DEBUGGER_CONNECTED \in debugger_flags
  /\ \E f \in ClientFrames :
       /\ \/ inbound = << >> /\ recv_buffer = << >>
          \/ f \in FollowFrames /\ Len(inbound) + Len(recv_buffer) + Len(f) <= MaxInbound
       /\ inbound' = inbound \o f
  /\ Assign(Cur)
  /\ ev' = Event("client", 0, "run", 0, 0, FALSE)
  /\ UNCHANGED << peer, limits, port, pc, depth, rx, hist, request, sending, recv_buffer, seen, fragments,
                  order >>

\* What a recv() of at most room bytes can come to when avail bytes are
\* there: the bytes it took ("read", none with EWOULDBLOCK), or "error".
RecvResults(avail, room) ==
  LET most == IF avail < room THEN avail ELSE room
  IN { [ kind |-> "read", n |-> n ] : n \in { k \in 0 .. most : k <= MaxRead \/ k = most } }
       \cup { [ kind |-> "error", n |-> 0 ] }

\* A receive buffer that is emptied once the message at its head is handled.
Remainder_none(buf, message_total_size) == << >>

\* The bytes left in the receive buffer once the message at its head is
\* handled: what follows it, moved to the front.
Remainder(buf, message_total_size) == SubSeq(buf, message_total_size + 1, Len(buf))

\* jerry_debugger_receive_ws, one turn of its loop with the bytes in hand; the
\* first turn of a call enters it.
ReceiveTurn ==
  /\ pc = "idle"
  /\ JERRY_DEBUGGER_CONNECTED \in debugger_flags
  /\ \E byte_recv \in RecvResults(Len(inbound), JERRY_DEBUGGER_MAX_BUFFER_SIZE - Len(recv_buffer)),
        io \in BOOLEAN :
       LET hard == byte_recv.kind = "error"
           buf == recv_buffer \o SubSeq(inbound, 1, byte_recv.n)
           in == IF hard THEN RecvError
                 ELSE FrameAt(buf, max_receive_size(JERRY_DEBUGGER_MAX_BUFFER_SIZE))
           r == jerry_debugger_receive_ws(IF rx.active THEN Cur ELSE ReceiveEntry(Cur),
                                          IF rx.active THEN rx ELSE [ NoRx EXCEPT !.active = TRUE ],
                                          in, depth, io)
           dispatched == EventKind(in) = "msg"
           message_total_size == MessageSize(buf) + ReceiveHeaderSize
       IN /\ (io \/ Replies(in))
          /\ Assign(r.s)
          /\ rx' = IF r.done THEN NoRx ELSE r.rx
          /\ inbound' = SubSeq(inbound, byte_recv.n + 1, Len(inbound))
          /\ recv_buffer' = IF dispatched /\ ~r.done
                            THEN Remainder(buf, message_total_size)
                            ELSE buf
          /\ seen' = [ head |-> IF hard THEN << >> ELSE buf,
                       dispatched |-> dispatched,
                       payload |-> IF dispatched THEN PayloadAt(buf) ELSE << >>,
                       unmasked |-> IF dispatched THEN UnmaskInPlace(buf) ELSE << >> ]
          /\ ev' = [ Event(EventKind(in), IF dispatched THEN in.msg.type ELSE 0,
                           Mode(debugger_flags), 0, 0, FALSE)
                     EXCEPT !.resumed = r.ret ]
  /\ UNCHANGED << peer, limits, port, pc, depth, hist, request, sending, fragments >>

ReceiveWs == ReceiveTurn /\ UNCHANGED order

NextReceive ==
  \/ Accept
  \/ ClientWrite
  \/ ReceiveWs

SpecReceive == Init /\ [][NextReceive]_vars

(***************************************************************************)
(* The order of the messages: a client that writes well-formed frames one  *)
(* behind the other, and the receive loop that takes them recv() by        *)
(* recv().  The frames written, the payloads handled and the replies sent  *)
(* are noted as they come.                                                 *)
(***************************************************************************)
\* The messages of this client: handled without a reply, handled with a
\* reply, and refused in run mode.
OrderPayloads ==
  { << JERRY_DEBUGGER_STOP >>, << JERRY_DEBUGGER_MEMSTATS >>,
    << JERRY_DEBUGGER_EXCEPTION_CONFIG, 1 >>, << JERRY_DEBUGGER_CONTINUE >> }

RECURSIVE Flatten(_)
Flatten(frames) == IF frames = << >> THEN << >> ELSE Head(frames) \o Flatten(Tail(frames))

\* The client writes the next frame behind whatever is still on its way.
ClientSends ==
  /\ pc = "idle"
  /\ JERRY_DEBUGGER_CONNECTED \in debugger_flags
  /\ Len(order.arrived) < MaxFrames
  /\ \E p \in OrderPayloads, m \in Masks :
       /\ (order.arrived # << >> => m = << 1, 2, 4, 255 >>)
       /\ LET f == WsFrame(JERRY_DEBUGGER_WEBSOCKET_FIN_BIT
                             + JERRY_DEBUGGER_WEBSOCKET_BINARY_FRAME, TRUE, m, p)
          IN /\ inbound' = inbound \o f
             /\ order' = [ order EXCEPT !.arrived = Append(@, f) ]
  /\ Assign(Cur)
  /\ ev' = Event("client", 0, "run", 0, 0, FALSE)
  /\ UNCHANGED << peer, limits, port, pc, depth, rx, hist, request, sending, recv_buffer, seen, fragments >>

\* A turn of the receive loop; the message it handles and the replies the
\* handler sends are noted, each reply with the number of the message it
\* answers.
ReceiveInOrder ==
  /\ ReceiveTurn
  /\ order' = IF seen'.dispatched
              THEN [ order EXCEPT
                       !.handled = Append(@, seen'.payload),
                       !.replies = @ \o [ i \in 1 .. Len(out') |->
                                            [ by |-> Len(order.handled) + 1,
                                              type |-> out'[i].type ] ] ]
              ELSE order

NextOrder ==
  \/ Accept
  \/ ClientSends
  \/ ReceiveInOrder

SpecOrder == Init /\ [][NextOrder]_vars

-----------------------------------------------------------------------------
\* The port-level connection operations (jerry-port/default/default-socket.c;
\* targets/zephyr/src/jerry-port.c has the same logic).  They take a connection
\* handle, make one send() or recv() call on its descriptor and report the
\* outcome as a return value, with the byte count in an out parameter.

MaxLen == 8           \* the longest buffer handed to a port-level operation

socket_connection == 1   \* the handle of the one client connection

Errnos == { "EWOULDBLOCK", "ECONNRESET", "EPIPE", "EINTR" }

\* What one send() or recv() call on len bytes can return: the number of bytes
\* moved, or -1 with errno set.
SysResults(len) ==
  { [ ret |-> n, errno |-> "none" ] : n \in 0 .. len }
    \cup { [ ret |-> -1, errno |-> e ] : e \in Errnos }

jerry_port_connection_receive_no_again(connection_p, sys) ==
  IF connection_p = NULL
    THEN [ ret |-> "JERRY_CONN_ERROR_INVALID", bytes |-> -1 ]
    ELSE IF sys.ret < 0
      THEN [ ret |-> "JERRY_CONN_ERROR_IO", bytes |-> sys.ret ]
      ELSE [ ret |-> "JERRY_CONN_ERROR_NONE", bytes |-> sys.ret ]

jerry_port_connection_send(connection_p, sys) ==
  IF connection_p = NULL
    THEN [ ret |-> "JERRY_CONN_ERROR_INVALID", bytes |-> -1 ]
    ELSE IF sys.ret < 0
      THEN IF sys.errno = "EWOULDBLOCK"
        THEN [ ret |-> "JERRY_CONN_ERROR_AGAIN", bytes |-> sys.ret ]
        ELSE [ ret |-> "JERRY_CONN_ERROR_IO", bytes |-> sys.ret ]
      ELSE [ ret |-> "JERRY_CONN_ERROR_NONE", bytes |-> sys.ret ]

jerry_port_connection_receive(connection_p, sys) ==
  IF connection_p = NULL
    THEN [ ret |-> "JERRY_CONN_ERROR_INVALID", bytes |-> -1 ]
    ELSE IF sys.ret < 0
      THEN IF sys.errno = "EWOULDBLOCK"
        THEN [ ret |-> "JERRY_CONN_ERROR_AGAIN", bytes |-> sys.ret ]
        ELSE [ ret |-> "JERRY_CONN_ERROR_IO", bytes |-> sys.ret ]
      ELSE [ ret |-> "JERRY_CONN_ERROR_NONE", bytes |-> sys.ret ]

PortCall(op, connection_p, len, sys, r) ==
  [ op |-> op, connection_p |-> connection_p, len |-> len, sys |-> sys,
    ret |-> r.ret, bytes |-> r.bytes ]

PortSend ==
  /\ \E connection_p \in { NULL, socket_connection }, len \in 0 .. MaxLen :
       \E sys \in SysResults(len) :
         port' = PortCall("send", connection_p, len, sys,
                          jerry_port_connection_send(connection_p, sys))
  /\ UNCHANGED << peer, limits, debugger_flags, fd, byte_code_free, units, breakpoints,
                  debugger_stop_context, stop_scope, debugger_message_delay, pc,
                  depth, rx, transfer, source_status, out, ev, hist, request, tx,
                  sock, inbound, recv_buffer, seen, fragments, order, closes, failed >>

PortReceive ==
  /\ \E connection_p \in { NULL, socket_connection }, len \in 0 .. MaxLen :
       \E sys \in SysResults(len) :
         port' = PortCall("receive", connection_p, len, sys,
                          jerry_port_connection_receive(connection_p, sys))
  /\ UNCHANGED << peer, limits, debugger_flags, fd, byte_code_free, units, breakpoints,
                  debugger_stop_context, stop_scope, debugger_message_delay, pc,
                  depth, rx, transfer, source_status, out, ev, hist, request, tx,
                  sock, inbound, recv_buffer, seen, fragments, order, closes, failed >>

NextPort ==
  \/ PortSend
  \/ PortReceive

SpecPort == Init /\ [][NextPort]_vars

-----------------------------------------------------------------------------
\* The payload limits for every buffer size a build may have: debugger.h
\* refuses a JERRY_DEBUGGER_MAX_BUFFER_SIZE below 64 or above 256.

MinBufferSize == 64
MaxBufferSize == 256

\* jerry_debugger_accept_connection_ws derives the limits of a build whose
\* buffers are B bytes long.
DeriveLimits ==
  /\ \E B \in MinBufferSize .. MaxBufferSize :
       limits' = [ B |-> B,
                   max_send_size |-> max_send_size(B),
                   max_receive_size |-> max_receive_size(B) ]
  /\ UNCHANGED << debugger_flags, fd, byte_code_free, units, breakpoints,
                  debugger_stop_context, stop_scope, debugger_message_delay, pc,
                  depth, rx, transfer, source_status, out, ev, hist, request, tx,
                  sock, inbound, recv_buffer, seen, fragments, order, closes, failed,
                  port, peer >>

NextLimits == DeriveLimits

SpecLimits == Init /\ [][NextLimits]_vars

(***************************************************************************)
(* The streams the engine sends: strings and backtraces in fragments.      *)
(***************************************************************************)
\* sizeof (jerry_debugger_send_header_t): ws_opcode and size.
SendHeaderSize == 2

\* A message budget that forgets the type byte.
JERRY_DEBUGGER_SEND_MAX_no_type(size) ==
  (JERRY_DEBUGGER_MAX_SEND_SIZE - SendHeaderSize) \div size

\* JERRY_DEBUGGER_SEND_MAX (type): the items of size bytes one message holds
\* after the header and the type byte.
JERRY_DEBUGGER_SEND_MAX(size) ==
  (JERRY_DEBUGGER_MAX_SEND_SIZE - SendHeaderSize - 1) \div size

\* sizeof (jerry_debugger_frame_t) under a compressed pointer of this size.
FrameSize(cpointer_size) == cpointer_size + 4

StreamMsg(t, body) == [ type |-> t, body |-> body ]
StreamResult(s, msgs, ret) == [ s |-> s, msgs |-> msgs, ret |-> ret ]

\* The loop of a fragmented send: while more than max items are left a full
\* message goes out under the type of the stream; what is left then, be it
\* nothing, goes out under the type after it.  fail is the send that fails
\* (0: none does); a failed send ends the call.
RECURSIVE SendFragments(_, _, _, _, _)
SendFragments(r, message_type, rest, max, fail) ==
  LET io == Len(r.msgs) + 1 # fail
      last == Len(rest) <= max
      body == IF last THEN rest ELSE SubSeq(rest, 1, max)
      m == StreamMsg(IF last THEN message_type + 1 ELSE message_type, body)
      s == jerry_debugger_send(r.s, io, OutMsg(m.type, 0, 0))
  IN IF ~io THEN StreamResult(s, r.msgs, FALSE)
     ELSE IF last THEN StreamResult(s, Append(r.msgs, m), TRUE)
     ELSE SendFragments(StreamResult(s, Append(r.msgs, m), FALSE), message_type,
                        SubSeq(rest, max + 1, Len(rest)), max, fail)

\* The bytes a string goes out as: behind its subtype, if it has one.
Streamed(sub_type, string) ==
  IF sub_type = JERRY_DEBUGGER_NO_SUBTYPE THEN string ELSE << sub_type >> \o string

\* jerry_debugger_send_string.
jerry_debugger_send_string(s, message_type, sub_type, string, fail) ==
  SendFragments(StreamResult(s, << >>, FALSE), message_type, Streamed(sub_type, string),
                JERRY_DEBUGGER_SEND_MAX(1), fail)

\* The backtrace of GET_BACKTRACE: frames in BACKTRACE messages, the last of
\* them in BACKTRACE_END.
jerry_debugger_send_backtrace(s, frames, cpointer_size, fail) ==
  SendFragments(StreamResult(s, << >>, FALSE), JERRY_DEBUGGER_BACKTRACE, frames,
                JERRY_DEBUGGER_SEND_MAX(FrameSize(cpointer_size)), fail)

\* The strings the engine streams, by their first message type.
StringTypes ==
  { JERRY_DEBUGGER_SOURCE_CODE, JERRY_DEBUGGER_SOURCE_CODE_NAME, JERRY_DEBUGGER_FUNCTION_NAME,
    JERRY_DEBUGGER_EXCEPTION_STR, JERRY_DEBUGGER_EVAL_RESULT, JERRY_DEBUGGER_OUTPUT_RESULT }
\* The results of an eval and the output of the program go out with a subtype.
SubTypes(message_type) ==
  IF message_type \in { JERRY_DEBUGGER_EVAL_RESULT, JERRY_DEBUGGER_OUTPUT_RESULT }
  THEN { JERRY_DEBUGGER_NO_SUBTYPE, 1 }
  ELSE { JERRY_DEBUGGER_NO_SUBTYPE }

\* Items told apart by their place, and the lengths around the multiples of
\* what one message holds.
Items(n) == [ i \in 1 .. n |-> i ]
Lengths(max) ==
  { n \in 0 .. MaxChunks * max + 1 : \E k \in 0 .. MaxChunks : n \in { k * max, k * max + 1 } }
Fails == 0 .. MaxChunks + 1

LastType(st) == IF st.msgs = << >> THEN st.prev ELSE st.msgs[Len(st.msgs)].type

SendString ==
  /\ pc = "idle"
  /\ JERRY_DEBUGGER_CONNECTED \in debugger_flags
  /\ \E message_type \in StringTypes, n \in Lengths(JERRY_DEBUGGER_SEND_MAX(1)), fail \in Fails :
     \E sub_type \in SubTypes(message_type) :
       LET r == jerry_debugger_send_string(Cur, message_type, sub_type, Items(n), fail)
       IN /\ Assign(r.s)
          /\ fragments' = [ prev |-> LastType(fragments), type |-> message_type, sub_type |-> sub_type,
                         items |-> Items(n), msgs |-> r.msgs, ret |-> r.ret ]
          /\ ev' = Event("send_string", message_type, "run", 0, 0, FALSE)
  /\ UNCHANGED << peer, limits, port, pc, depth, rx, hist, request, sending, receiving >>

SendBacktrace ==
  /\ pc = "idle"
  /\ JERRY_DEBUGGER_CONNECTED \in debugger_flags
  /\ \E cpointer_size \in CpointerSizes, fail \in Fails :
     \E n \in Lengths(JERRY_DEBUGGER_SEND_MAX(FrameSize(cpointer_size))) :
       LET r == jerry_debugger_send_backtrace(Cur, Items(n), cpointer_size, fail)
       IN /\ Assign(r.s)
          /\ fragments' = [ prev |-> LastType(fragments), type |-> JERRY_DEBUGGER_BACKTRACE,
                         sub_type |-> JERRY_DEBUGGER_NO_SUBTYPE,
                         items |-> Items(n), msgs |-> r.msgs, ret |-> r.ret ]
          /\ ev' = Event("send_backtrace", JERRY_DEBUGGER_BACKTRACE, "run", 0, 0, FALSE)
  /\ UNCHANGED << peer, limits, port, pc, depth, rx, hist, request, sending, receiving >>

\* jerry_debugger_send_type: a message of an unrelated type, without a body.
SendType ==
  /\ pc = "idle"
  /\ JERRY_DEBUGGER_CONNECTED \in debugger_flags
  /\ \E io \in BOOLEAN :
       LET m == OutMsg(JERRY_DEBUGGER_WAITING_AFTER_PARSE, 0, 0)
       IN /\ Assign(jerry_debugger_send(Cur, io, m))
          /\ fragments' = [ prev |-> LastType(fragments), type |-> m.type,
                         sub_type |-> JERRY_DEBUGGER_NO_SUBTYPE, items |-> << >>,
                         msgs |-> IF io THEN << StreamMsg(m.type, << >>) >> ELSE << >>,
                         ret |-> io ]
          /\ ev' = Event("send_type", m.type, "run", 0, 0, FALSE)
  /\ UNCHANGED << peer, limits, port, pc, depth, rx, hist, request, sending, receiving >>

NextString ==
  \/ Accept
  \/ SendString
  \/ SendBacktrace
  \/ SendType

SpecString == Init /\ [][NextString]_vars

-----------------------------------------------------------------------------
\* The exception hit: the script throws while it runs.

\* jerry_debugger_send_exception_string: the string form of the exception,
\* as a stream of EXCEPTION_STR messages.
jerry_debugger_send_exception_string(s, string, fail) ==
  jerry_debugger_send_string(s, JERRY_DEBUGGER_EXCEPTION_STR, JERRY_DEBUGGER_NO_SUBTYPE,
                             string, fail)

\* jerry_debugger_breakpoint_hit (message_type), up to its blocking poll.
jerry_debugger_breakpoint_hit_as(s, message_type, cp, off, d, io) ==
  LET m == [ s EXCEPT !.flags = JERRY_DEBUGGER_UPDATE_FLAGS(@, { JERRY_DEBUGGER_BREAKPOINT_MODE },
                                                            { JERRY_DEBUGGER_VM_STOP }) ]
      h == jerry_debugger_send(m, io, OutMsg(message_type, cp, off))
  IN IF Connected(h) THEN [ h EXCEPT !.stop_context = d, !.scope = "any" ] ELSE h

\* Does the engine stop at an exception?
StopAtException(s) ==
  /\ Connected(s)
  /\ JERRY_DEBUGGER_VM_IGNORE_EXCEPTION \notin s.flags

\* The engine's exception path at <<cp, off>> of call frame d: the string of
\* the exception goes out, then EXCEPTION_HIT; fail is the send that fails
\* (0: none does).
ExceptionHit(s, string, cp, off, d, fail) ==
  IF ~StopAtException(s) THEN s
  ELSE LET r == jerry_debugger_send_exception_string(s, string, fail)
       IN IF ~r.ret THEN r.s
          ELSE jerry_debugger_breakpoint_hit_as(r.s, JERRY_DEBUGGER_EXCEPTION_HIT, cp, off, d,
                                                Len(r.msgs) + 1 # fail)

\* The script throws at <<cp, off>>.
ExceptionThrown ==
  /\ pc = "run"
  /\ ~rx.active
  /\ \E cp \in CPs, off \in Offsets, n \in Lengths(JERRY_DEBUGGER_SEND_MAX(1)), fail \in Fails :
       /\ units[cp] = "live"
       /\ (~StopAtException(Cur) => (n = 0 /\ fail = 0))
       /\ LET h == ExceptionHit(Cur, Items(n), cp, off, depth, fail)
              paused == JERRY_DEBUGGER_BREAKPOINT_MODE \in h.flags /\ Connected(h)
          IN /\ Assign(h)
             /\ pc' = IF paused THEN "bp" ELSE "run"
             /\ hist' = IF paused
                        THEN [ hist EXCEPT !.resume = 0, !.after = hist.resume, !.fresh = FALSE ]
                        ELSE hist
             /\ ev' = [ Event("exception", 0, Mode(debugger_flags), cp, off, paused)
                        EXCEPT !.expected = n ]
  /\ UNCHANGED << depth, rx, wire >>

NextException ==
  \/ Accept
  \/ Parse
  \/ Run
  \/ Safepoint
  \/ ExceptionThrown
  \/ PollBlocking
  \/ Receive

SpecException == Init /\ [][NextException]_vars

-----------------------------------------------------------------------------
\* The parse notifications with their strings: the source, the name of the
\* source and the name of the function go out as streams.

\* The messages a string of n bytes goes out in.
Chunks(n) == IF n = 0 THEN 1 ELSE (n - 1) \div JERRY_DEBUGGER_SEND_MAX(1) + 1

\* The send that fails, counted from the sends made before.
FailFrom(before, fail) == IF fail = 0 THEN 0 ELSE fail - before

\* Does the engine wait for the client after this parse?
WaitAfterParse(s) == Connected(s) /\ JERRY_DEBUGGER_PARSER_WAIT \in s.flags

\* The messages ms, sent one after the other as the sends after the k-th.
RECURSIVE SendEach(_, _, _, _)
SendEach(s, k, fail, ms) ==
  IF ms = << >> THEN s
  ELSE SendEach(jerry_debugger_send(s, k + 1 # fail, Head(ms)), k + 1, fail, Tail(ms))

\* The end of a notification: with PARSER_WAIT set the engine tells the client
\* that it waits, and waits.
ParseWait(s, k, fail) ==
  IF ~WaitAfterParse(s) THEN s
  ELSE LET h == jerry_debugger_send(s, k + 1 # fail,
                                    OutMsg(JERRY_DEBUGGER_WAITING_AFTER_PARSE, 0, 0))
       IN IF Connected(h)
          THEN [ h EXCEPT !.flags = JERRY_DEBUGGER_SET_FLAGS(@, { JERRY_DEBUGGER_PARSER_WAIT_MODE }) ]
          ELSE h

\* The notifications of the function cp, whose source, source name and
\* function name are ns, nn and nf bytes long.
ParseNotify(s, cp, ns, nn, nf, fail) ==
  LET a == jerry_debugger_send_string(s, JERRY_DEBUGGER_SOURCE_CODE,
                                      JERRY_DEBUGGER_NO_SUBTYPE, Items(ns), fail).s
      b == jerry_debugger_send_string(a, JERRY_DEBUGGER_SOURCE_CODE_NAME,
                                      JERRY_DEBUGGER_NO_SUBTYPE, Items(nn),
                                      FailFrom(Chunks(ns), fail)).s
      c == jerry_debugger_send_string(b, JERRY_DEBUGGER_FUNCTION_NAME,
                                      JERRY_DEBUGGER_NO_SUBTYPE, Items(nf),
                                      FailFrom(Chunks(ns) + Chunks(nn), fail)).s
      k == Chunks(ns) + Chunks(nn) + Chunks(nf)
      g == SendEach(c, k, fail, << OutMsg(JERRY_DEBUGGER_PARSE_FUNCTION, 0, 0),
                                   OutMsg(JERRY_DEBUGGER_BREAKPOINT_LIST, 0, 0),
                                   OutMsg(JERRY_DEBUGGER_BREAKPOINT_OFFSET_LIST, 0, 0),
                                   OutMsg(JERRY_DEBUGGER_BYTE_CODE_CP, cp, 0) >>)
  IN ParseWait(g, k + 4, fail)

\* The sends of the longest notification, and one more: no send fails.
ParseFails == 0 .. 3 * (MaxChunks + 1) + 6

\* The engine has parsed a function.
ParseFunction ==
  /\ pc = "idle"
  /\ \E cp \in CPs, ns \in Lengths(JERRY_DEBUGGER_SEND_MAX(1)),
        nn \in Lengths(JERRY_DEBUGGER_SEND_MAX(1)), nf \in Lengths(JERRY_DEBUGGER_SEND_MAX(1)),
        fail \in ParseFails :
       /\ units[cp] = "none"
       /\ (~Connected(Cur) => (ns = 0 /\ nn = 0 /\ nf = 0 /\ fail = 0))
       /\ LET born == [ Cur EXCEPT !.units[cp] = "live" ]
              told == ParseNotify(born, cp, ns, nn, nf, fail)
              held == Connected(told) /\ JERRY_DEBUGGER_PARSER_WAIT_MODE \in told.flags
          IN /\ Assign(told)
             /\ pc' = IF held THEN "parse" ELSE "idle"
             /\ ev' = Event("parse", 0, "run", cp, 0, held)
  /\ UNCHANGED << depth, rx, hist, wire >>

\* The client of a parsing session: it configures the wait after a parse,
\* releases the parser, stops and resumes the engine, or goes away.
ParseInputs ==
  { RecvError, RecvNothing }
  \cup { Frame("ok", JERRY_DEBUGGER_WEBSOCKET_BINARY_FRAME, m) :
           m \in { Msg(JERRY_DEBUGGER_PARSER_CONFIG, en, 0, 0) : en \in { 0, 1 } }
                   \cup { Msg(t, 0, 0, 0) : t \in { JERRY_DEBUGGER_PARSER_RESUME,
                                                    JERRY_DEBUGGER_CONTINUE,
                                                    JERRY_DEBUGGER_STOP } } }

ReceiveParse == ReceiveOf(ParseInputs, FALSE)

NextParse ==
  \/ Accept
  \/ ParseFunction
  \/ Run
  \/ Safepoint
  \/ Return
  \/ PollBlocking
  \/ ReceiveParse

SpecParse == Init /\ [][NextParse]_vars

\* A stepping session: a script with nested calls under a client that steps.
NextStepping ==
  \/ Accept
  \/ Parse
  \/ Run
  \/ Safepoint
  \/ Call
  \/ Return
  \/ PollBlocking
  \/ ReceiveStepping

SpecStepping == Init /\ [][NextStepping]_vars

(***************************************************************************)
(* The acceptance matrix as the specification tabulates it, row by row:    *)
(* the primary modes in which a message type is legal.                     *)
(***************************************************************************)
AllModes == { "run", "breakpoint", "parse", "source" }

MatrixModes(t) ==
  CASE t = JERRY_DEBUGGER_FREE_BYTE_CODE_CP -> AllModes
    [] t = JERRY_DEBUGGER_UPDATE_BREAKPOINT -> AllModes
    [] t = JERRY_DEBUGGER_EXCEPTION_CONFIG -> AllModes
    [] t = JERRY_DEBUGGER_PARSER_CONFIG -> AllModes
    [] t = JERRY_DEBUGGER_MEMSTATS -> AllModes
    [] t = JERRY_DEBUGGER_STOP -> AllModes
    [] t = JERRY_DEBUGGER_PARSER_RESUME -> { "parse" }
    [] t = JERRY_DEBUGGER_CLIENT_SOURCE -> { "source" }
    [] t = JERRY_DEBUGGER_CLIENT_SOURCE_PART -> { "source" }
    [] t = JERRY_DEBUGGER_NO_MORE_SOURCES -> { "source" }
    [] t = JERRY_DEBUGGER_CONTEXT_RESET -> { "source" }
    [] t = JERRY_DEBUGGER_CONTINUE -> { "breakpoint" }
    [] t = JERRY_DEBUGGER_STEP -> { "breakpoint" }
    [] t = JERRY_DEBUGGER_NEXT -> { "breakpoint" }
    [] t = JERRY_DEBUGGER_FINISH -> { "breakpoint" }
    [] t = JERRY_DEBUGGER_GET_BACKTRACE -> { "breakpoint" }
    [] t = JERRY_DEBUGGER_EVAL -> { "breakpoint" }
    [] t = JERRY_DEBUGGER_EVAL_PART -> { "breakpoint" }
    [] t = JERRY_DEBUGGER_THROW -> { "breakpoint" }
    [] t = JERRY_DEBUGGER_THROW_PART -> { "breakpoint" }
    [] OTHER -> { }

\* The state a closed session is left in.
TornDown ==
  /\ debugger_flags = { JERRY_DEBUGGER_VM_IGNORE }
  /\ fd = NoFd
  /\ byte_code_free = << >>
  /\ \A cp \in CPs : units[cp] # "queued"

\* C1: a message whose type the acceptance matrix does not mark legal for the
\* primary mode it arrives in is a protocol error: the step that decodes it
\* closes the connection and ends the receive call, and the command has no
\* other effect (nothing is sent, no breakpoint, stop request or byte code
\* unit changes beyond the flush of the close).
C1_OffMatrixIsProtocolError ==
  [][ (ev'.kind = "msg" /\ ev'.mode \notin MatrixModes(ev'.type))
        => /\ TornDown'
           /\ ~rx'.active
           /\ out' = << >>
           /\ breakpoints' = breakpoints
           /\ debugger_stop_context' = debugger_stop_context
           /\ stop_scope' = stop_scope
           /\ \A cp \in CPs : units[cp] # "queued" => units'[cp] = units[cp] ]_vars

\* C1, its case: a PARSER_RESUME met in breakpoint mode has closed the session.
C1_Witness ==
  /\ ev.kind = "msg"
  /\ ev.type = JERRY_DEBUGGER_PARSER_RESUME
  /\ ev.mode = "breakpoint"
  /\ TornDown

\* C2: every step that tears the session down (a hard recv failure, a failed
\* send, a malformed frame, a protocol error, or a handshake that fails once
\* the client socket is open) leaves the flags at exactly VM_IGNORE, the
\* socket closed and the deferred-free queue flushed; and a session that is
\* not connected after the accept is never connected again.
C2_TeardownLeavesOnlyVmIgnore ==
  [][ /\ ( \/ JERRY_DEBUGGER_CONNECTED \in debugger_flags
              /\ JERRY_DEBUGGER_CONNECTED \notin debugger_flags'
           \/ ev'.kind = "accept" /\ ev'.mode \notin { "ok", "socket", "listen" } )
        => TornDown'
      /\ (pc # "start" /\ JERRY_DEBUGGER_CONNECTED \notin debugger_flags)
        => JERRY_DEBUGGER_CONNECTED \notin debugger_flags' ]_vars

\* C2, its case: a hard recv failure in breakpoint mode has torn the session down.
C2_Witness ==
  /\ ev.kind = "recv_error"
  /\ ev.mode = "breakpoint"
  /\ TornDown
  /\ pc = "run"

\* C3: once the connection is closed the engine never enters BREAKPOINT_MODE,
\* never writes a frame, never blocks in a blocking poll or calls receive
\* again, and passes every safepoint without a pause.
Closed == pc # "start" /\ JERRY_DEBUGGER_CONNECTED \notin debugger_flags

C3_ClosedSessionRunsBlind ==
  [][ Closed => /\ Closed'
                /\ JERRY_DEBUGGER_BREAKPOINT_MODE \notin debugger_flags'
                /\ out' = << >>
                /\ ~rx'.active
                /\ pc' \notin { "bp", "parse", "source" }
                /\ ~ev'.hit ]_vars

\* C3, its case: a closed session has passed a safepoint with an active breakpoint.
C3_Witness ==
  /\ Closed
  /\ fd = NoFd
  /\ JERRY_DEBUGGER_VM_IGNORE \in debugger_flags
  /\ ev.kind = "safepoint"
  /\ << ev.cp, ev.offset >> \in breakpoints
  /\ ~ev.hit
  /\ pc = "run"

\* The BREAKPOINT_HIT of the safepoint the last step took.
HitOf(e) == << OutMsg(JERRY_DEBUGGER_BREAKPOINT_HIT, e.cp, e.offset) >>

\* By the resume command since the last hit, is a stop request held back in
\* call frame d?  (NEXT: while d is deeper than the frame of the hit; FINISH:
\* until d is shallower than it; a later STOP lifts the hold.)
HeldBack(h, d) ==
  /\ ~h.stop
  /\ \/ h.resume = JERRY_DEBUGGER_NEXT /\ d > h.frame
     \/ h.resume = JERRY_DEBUGGER_FINISH /\ d >= h.frame

PausedSteps == { "poll", "msg", "recv_nothing", "recv_error", "malformed", "opcode" }

\* C5: while BREAKPOINT_MODE is set the engine is paused: it stands in the
\* blocking poll of the breakpoint, the only steps are polls and turns of the
\* receive loop, the call frame stays, and BREAKPOINT_MODE is left only by a
\* handled CONTINUE, STEP, NEXT or FINISH or by the close of the connection.
C5_BreakpointModeIsPaused ==
  [][ (JERRY_DEBUGGER_BREAKPOINT_MODE \in debugger_flags)
        => /\ pc = "bp"
           /\ ev'.kind \in PausedSteps
           /\ depth' = depth
           /\ pc' \in { "bp", "run" }
           /\ ( \/ JERRY_DEBUGGER_BREAKPOINT_MODE \in debugger_flags' /\ pc' = "bp"
                \/ ev'.kind = "msg" /\ ev'.type \in ResumeTypes
                \/ JERRY_DEBUGGER_CONNECTED \notin debugger_flags' ) ]_vars

\* C5, its case: a backtrace was served in breakpoint mode and the engine is
\* still paused.
C5_Witness ==
  /\ JERRY_DEBUGGER_BREAKPOINT_MODE \in debugger_flags
  /\ ev.kind = "msg"
  /\ ev.type = JERRY_DEBUGGER_GET_BACKTRACE
  /\ out # << >>
  /\ pc = "bp"

\* C6: a CONTINUE handled in breakpoint mode leaves BREAKPOINT_MODE and VM_STOP
\* clear, a STEP leaves BREAKPOINT_MODE clear and VM_STOP set, and both make
\* the receive call report that the engine resumes; after a STEP the next
\* safepoint of the connected session, in whatever call frame, pauses with
\* the BREAKPOINT_HIT of its place.
C6_ContinueAndStep ==
  [][ /\ ( /\ ev'.kind = "msg"
           /\ ev'.type = JERRY_DEBUGGER_CONTINUE
           /\ JERRY_DEBUGGER_CONNECTED \in debugger_flags' )
        => /\ JERRY_DEBUGGER_BREAKPOINT_MODE \notin debugger_flags'
           /\ JERRY_DEBUGGER_VM_STOP \notin debugger_flags'
           /\ rx'.active /\ rx'.resume_exec
      /\ ( /\ ev'.kind = "msg"
           /\ ev'.type = JERRY_DEBUGGER_STEP
           /\ JERRY_DEBUGGER_CONNECTED \in debugger_flags' )
        => /\ JERRY_DEBUGGER_BREAKPOINT_MODE \notin debugger_flags'
           /\ JERRY_DEBUGGER_VM_STOP \in debugger_flags'
           /\ rx'.active /\ rx'.resume_exec
      /\ ( /\ ev'.kind = "safepoint"
           /\ hist.resume = JERRY_DEBUGGER_STEP
           /\ JERRY_DEBUGGER_CONNECTED \in debugger_flags )
        => /\ ev'.hit
           /\ JERRY_DEBUGGER_CONNECTED \in debugger_flags'
                => out' = HitOf(ev') /\ pc' = "bp" ]_vars

\* C6, its case: after a STEP the engine entered a nested call and paused
\* at its first safepoint, where no breakpoint is active.
C6_Witness ==
  /\ ev.kind = "safepoint"
  /\ ev.hit
  /\ << ev.cp, ev.offset >> \notin breakpoints
  /\ hist.after = JERRY_DEBUGGER_STEP
  /\ depth > hist.frame
  /\ pc = "bp"
  /\ out = HitOf(ev)

C9Types ==
  { JERRY_DEBUGGER_CONTINUE, JERRY_DEBUGGER_STEP, JERRY_DEBUGGER_NEXT, JERRY_DEBUGGER_FINISH,
    JERRY_DEBUGGER_GET_BACKTRACE, JERRY_DEBUGGER_EVAL, JERRY_DEBUGGER_EVAL_PART }

\* C9: once a resume command has taken the session out of breakpoint mode, a
\* breakpoint-mode-only message that arrives before the engine has paused
\* again (in the receive call of the resume command itself, or in a poll of
\* the running engine) is a protocol error: the session is torn down, the
\* receive call ends and nothing is sent.
C9_BreakpointCommandAfterResume ==
  [][ ( /\ ev'.kind = "msg"
        /\ ev'.type \in C9Types
        /\ JERRY_DEBUGGER_BREAKPOINT_MODE \notin debugger_flags
        /\ \/ pc = "bp" /\ rx.resume_exec
           \/ pc = "run" )
        => /\ TornDown'
           /\ ~rx'.active
           /\ out' = << >>
           /\ pc' = "run" ]_vars

\* C9, its case: a GET_BACKTRACE decoded in the receive call that had just
\* handled the resume command has closed the session.
C9_Witness ==
  /\ ev.kind = "msg"
  /\ ev.type = JERRY_DEBUGGER_GET_BACKTRACE
  /\ ev.resumed
  /\ ev.mode = "run"
  /\ TornDown
  /\ pc = "run"

ReceiveKinds == { "recv_error", "recv_nothing", "malformed", "opcode", "msg" }

C12_ConfigurationFirst ==
  [][ ( ev'.kind = "accept" /\ ev'.mode = "ok" )
        => /\ JERRY_DEBUGGER_CONNECTED \in debugger_flags'
           /\ fd' # NoFd
           /\ Len(out') = 2
           /\ out'[1] = HandshakeResponse
           /\ out'[2].type = 1
           /\ out'[2].max_message_size = JERRY_DEBUGGER_MAX_BUFFER_SIZE - 6
           /\ out'[2].max_message_size <= 125
           /\ out'[2].cpointer_size \in { 2, 4 }
           /\ out'[2].little_endian \in { 0, 1 }
           /\ out'[2].version = 2 ]_vars

\* C12, its case: accept has returned true on a big-endian build with 32-bit
\* compressed pointers.
C12_Witness ==
  /\ ev.kind = "accept"
  /\ ev.mode = "ok"
  /\ Len(out) = 2
  /\ out[2].type = JERRY_DEBUGGER_CONFIGURATION
  /\ out[2].cpointer_size = 4
  /\ out[2].little_endian = 0
  /\ JERRY_DEBUGGER_CONNECTED \in debugger_flags

\* C13: an accept that returns true leaves the session in run mode with
\* VM_STOP set and no stop context, an accept that fails leaves VM_STOP
\* clear; until the engine has paused for the first time the stop request
\* of a connected session stays as accept left it, and the first safepoint
\* the connected engine reaches is a pause, whether or not a breakpoint is
\* active there: BREAKPOINT_HIT for that place is the one message written
\* and the engine blocks in breakpoint mode (a BREAKPOINT_HIT that cannot be
\* written tears the session down instead).
C13_FirstSafepointPauses ==
  [][ /\ ( ev'.kind = "accept" /\ ev'.mode = "ok" )
           => /\ Mode(debugger_flags') = "run"
              /\ JERRY_DEBUGGER_VM_STOP \in debugger_flags'
              /\ debugger_stop_context' = NULL
      /\ ( ev'.kind = "accept" /\ ev'.mode # "ok" )
           => JERRY_DEBUGGER_VM_STOP \notin debugger_flags'
      /\ ( hist.fresh /\ JERRY_DEBUGGER_CONNECTED \in debugger_flags )
           => /\ JERRY_DEBUGGER_VM_STOP \in debugger_flags
              /\ debugger_stop_context = NULL
              /\ JERRY_DEBUGGER_BREAKPOINT_MODE \notin debugger_flags
              /\ ev'.kind = "safepoint"
                   => /\ ev'.hit
                      /\ ev'.first
                      /\ ~hist'.fresh
                      /\ \/ /\ JERRY_DEBUGGER_CONNECTED \in debugger_flags'
                            /\ out' = << OutMsg(JERRY_DEBUGGER_BREAKPOINT_HIT,
                                                ev'.cp, ev'.offset) >>
                            /\ JERRY_DEBUGGER_BREAKPOINT_MODE \in debugger_flags'
                            /\ JERRY_DEBUGGER_VM_STOP \notin debugger_flags'
                            /\ pc' = "bp"
                         \/ /\ TornDown'
                            /\ out' = << >>
                            /\ pc' = "run" ]_vars

\* C13, its case: the engine has paused at its first safepoint with no
\* breakpoint set anywhere.
C13_Witness ==
  /\ ev.kind = "safepoint"
  /\ ev.first
  /\ ev.hit
  /\ breakpoints = { }
  /\ pc = "bp"
  /\ JERRY_DEBUGGER_BREAKPOINT_MODE \in debugger_flags
  /\ out = << OutMsg(JERRY_DEBUGGER_BREAKPOINT_HIT, ev.cp, ev.offset) >>

\* The request does not qualify: it lacks the protocol text at its start, or
\* has no key header right after a line end, or has filled every place of
\* the buffer but the last.
BadRequest(buf) ==
  \/ buf = << >>
  \/ buf[1] # "GET"
  \/ \A i \in 1 .. Len(buf) : buf[i] = "KEY" => (i = 1 \/ buf[i - 1] # "CRLF")
  \/ Len(buf) = request_buffer_size - 1 /\ ~EndsRequest(buf)

\* C14: when the handshake ends on a request that does not start with
\* "GET /jerry-debugger", or holds no "Sec-WebSocket-Key:" at the start of a
\* line, or has filled the buffer before its blank line, accept returns
\* false, the client socket is closed, neither the 101 response nor a
\* CONFIGURATION has been written, and the session is not connected.
C14_BadHandshakeRefused ==
  [][ ( ev'.kind = "accept" /\ BadRequest(request') )
        => /\ ev'.mode # "ok"
           /\ fd' = NoFd
           /\ out' = << >>
           /\ JERRY_DEBUGGER_CONNECTED \notin debugger_flags'
           /\ JERRY_DEBUGGER_VM_STOP \notin debugger_flags' ]_vars

\* C14, its case: a request with the key header in its first line, not at
\* the start of a line, has been refused.
C14_Witness ==
  /\ ev.kind = "accept"
  /\ Len(request) >= 4
  /\ request[1] = "GET"
  /\ request[2] = "KEY"
  /\ EndsRequest(request)
  /\ ev.mode = "key"
  /\ fd = NoFd
  /\ JERRY_DEBUGGER_CONNECTED \notin debugger_flags


\* C15: of every frame the server writes, the first byte on the socket is
\* 0x82, the second is the size of the message and lies in 0 .. 125, and no
\* more than 2 + that many bytes are written; a send that returns true has
\* written exactly 2 + that many, the message after the header, and a send
\* that returns false has closed the connection.
C15_EgressFrame ==
  /\ Len(sock) >= 1 => sock[1] = 130
  /\ Len(sock) >= 2 => /\ sock[2] \in 0 .. 125
                       /\ Len(sock) <= 2 + sock[2]
  /\ tx.ret = "true" => /\ Len(sock) >= 2
                        /\ Len(sock) = 2 + sock[2]
                        /\ SubSeq(sock, 3, Len(sock)) = [ i \in 1 .. sock[2] |-> i ]
  /\ tx.ret = "false" => TornDown

\* C15, its case: a frame with the largest message has been written in more
\* than one send().
C15_Witness ==
  /\ tx.ret = "true"
  /\ ev.kind = "send"
  /\ Len(sock) = 127
  /\ sock[2] = 125
  /\ Len(tx.data) = 127


\* Does a frame header pass the checks of the framing: FIN and no reserved
\* bit with opcode 2 (0x82), the mask bit, a size within the maximum?
GoodHeader(head) ==
  /\ head[1] = 130
  /\ head[2] >= 128
  /\ head[2] - 128 <= max_receive_size(JERRY_DEBUGGER_MAX_BUFFER_SIZE)

\* C16: every frame whose payload is handed to the dispatcher has FIN set and
\* no reserved bit, the mask bit set, opcode 2 and a size of at most the
\* maximum receive payload, and is in the buffer whole; a turn of the receive
\* loop that finds a frame failing one of these at the head of its buffer
\* dispatches nothing and writes nothing, and the frame stays where it is.
C16_IngressChecked ==
  /\ [](seen.dispatched =>
          /\ Len(seen.head) >= 2
          /\ GoodHeader(seen.head)
          /\ Len(seen.payload) = seen.head[2] - 128
          /\ Len(seen.head) >= ReceiveHeaderSize + Len(seen.payload))
  /\ [][ (ev'.kind \in ReceiveKinds /\ Len(seen'.head) >= 2 /\ ~GoodHeader(seen'.head))
           => /\ ~seen'.dispatched
              /\ recv_buffer' = seen'.head
              /\ out' = << >> ]_vars

\* C16, its case: a frame of the largest size was dispatched.
C16_Witness ==
  /\ seen.dispatched
  /\ Len(seen.payload) = max_receive_size(JERRY_DEBUGGER_MAX_BUFFER_SIZE)
  /\ seen.head[2] = 250
  /\ ev.kind = "msg"

\* Is a whole frame at the head of these bytes, by the sizes its own header
\* declares, and is its opcode not BINARY?
WholeNonBinary(head) ==
  /\ Len(head) >= 2
  /\ head[1] % 16 # JERRY_DEBUGGER_WEBSOCKET_BINARY_FRAME
  /\ Len(head) >= JERRY_DEBUGGER_WEBSOCKET_HEADER_SIZE
                    + (IF head[2] >= 128 THEN JERRY_DEBUGGER_WEBSOCKET_MASK_SIZE ELSE 0)
                    + (head[2] % 128)

\* C17: a turn of the receive loop that has a whole frame with an opcode
\* other than BINARY at the head of its buffer ends the session: the socket
\* is closed, nothing is dispatched and the session is not connected.
C17_NonBinaryEndsSession ==
  (ev.kind \in ReceiveKinds /\ WholeNonBinary(seen.head))
    => /\ TornDown
       /\ ~seen.dispatched
       /\ JERRY_DEBUGGER_CONNECTED \notin debugger_flags

\* C17 for the frames the receive loop looks into, those with six bytes in
\* the buffer: the session ends.
C17_SixBytesEndSession ==
  (ev.kind \in ReceiveKinds /\ Len(seen.head) >= ReceiveHeaderSize
     /\ seen.head[1] % 16 # JERRY_DEBUGGER_WEBSOCKET_BINARY_FRAME)
    => /\ TornDown
       /\ ~seen.dispatched
       /\ JERRY_DEBUGGER_CONNECTED \notin debugger_flags

\* C17, its case: a CLOSE frame with a mask ended the session.
C17_Witness ==
  /\ ev.kind \in { "opcode" }
  /\ Len(seen.head) >= ReceiveHeaderSize
  /\ seen.head[1] = 136
  /\ TornDown


\* The first types of the outgoing streams; the end of each is the type after.
ContinuationTypes ==
  { JERRY_DEBUGGER_SOURCE_CODE, JERRY_DEBUGGER_SOURCE_CODE_NAME, JERRY_DEBUGGER_FUNCTION_NAME,
    JERRY_DEBUGGER_EXCEPTION_STR, JERRY_DEBUGGER_BACKTRACE, JERRY_DEBUGGER_EVAL_RESULT,
    JERRY_DEBUGGER_OUTPUT_RESULT }

\* The types the client has got: the last one before the call, then the
\* messages of the call.
StreamLog ==
  (IF fragments.prev = 0 THEN << >> ELSE << fragments.prev >>)
    \o [ i \in 1 .. Len(fragments.msgs) |-> fragments.msgs[i].type ]

\* C18: among the messages the client gets, a continuation message of a
\* stream is followed by a message of the same stream, a further
\* continuation or its _END, never by a message of another type; and where
\* the last message the client got is a continuation message, the
\* connection has been closed.
C18_StreamsEnd ==
  \A i \in 1 .. Len(StreamLog) :
    StreamLog[i] \in ContinuationTypes
      => IF i < Len(StreamLog)
         THEN StreamLog[i + 1] \in { StreamLog[i], StreamLog[i] + 1 }
         ELSE TornDown

\* C18, its case: a stream of two continuation messages and the _END, sent
\* after another stream had ended.
C18_Witness ==
  /\ Len(StreamLog) = 4
  /\ StreamLog[1] = JERRY_DEBUGGER_SOURCE_CODE_END
  /\ StreamLog[2] = JERRY_DEBUGGER_BACKTRACE
  /\ StreamLog[3] = JERRY_DEBUGGER_BACKTRACE
  /\ StreamLog[4] = JERRY_DEBUGGER_BACKTRACE_END
  /\ JERRY_DEBUGGER_CONNECTED \in debugger_flags

\* The bodies of a sequence of messages, one after the other.
RECURSIVE Bodies(_)
Bodies(msgs) == IF msgs = << >> THEN << >> ELSE Head(msgs).body \o Bodies(Tail(msgs))

\* C19: a jerry_debugger_send_string that returns true has emitted zero or
\* more messages of the continuation type and then exactly one of the end
\* type, each with at most max_send_payload - 1 body bytes, and the bodies
\* in the order of emission are the string byte for byte (behind its subtype
\* byte where the call names a subtype).
C19_StringRoundTrip ==
  (fragments.type \in StringTypes /\ fragments.ret)
    => LET n == Len(fragments.msgs)
       IN /\ n >= 1
          /\ \A i \in 1 .. n - 1 : fragments.msgs[i].type = fragments.type
          /\ fragments.msgs[n].type = fragments.type + 1
          /\ \A i \in 1 .. n :
               Len(fragments.msgs[i].body) <= max_send_size(JERRY_DEBUGGER_MAX_BUFFER_SIZE) - 1
          /\ fragments.sub_type = JERRY_DEBUGGER_NO_SUBTYPE => Bodies(fragments.msgs) = fragments.items
          /\ fragments.sub_type # JERRY_DEBUGGER_NO_SUBTYPE
               => Bodies(fragments.msgs) = << fragments.sub_type >> \o fragments.items

\* C19, its case: a string of twice the chunk size went out as one
\* continuation message and an end message, both full.
C19_Witness ==
  /\ fragments.type = JERRY_DEBUGGER_EVAL_RESULT
  /\ fragments.ret
  /\ fragments.sub_type = JERRY_DEBUGGER_NO_SUBTYPE
  /\ Len(fragments.items) = 248
  /\ Len(fragments.msgs) = 2
  /\ Len(fragments.msgs[2].body) = 124


\* Does this step handle a FREE_BYTE_CODE_CP that names the unit cp?
FreeOf(e, cp) ==
  e.kind = "msg" /\ e.type = JERRY_DEBUGGER_FREE_BYTE_CODE_CP /\ e.cp = cp

\* C20, as stated: no unit stays on the deferred-free queue forever, not
\* even under an engine that polls its client again and again.
C20_AsStated ==
  \A cp \in CPs :
    []<>(ev.kind \in ReceiveKinds) => ((units[cp] = "queued") ~> (units[cp] # "queued"))

\* C20: a release with a client attached puts the unit on the deferred-free
\* queue and emits RELEASE_BYTE_CODE_CP for it, unless the send fails and the
\* connection is torn down; the step that handles a FREE_BYTE_CODE_CP with
\* the pointer of a queued unit frees it; a unit leaves the queue in no other
\* way than by such a step or by the teardown of the connection, and then it
\* is freed; and no unit is on the queue once the connection is closed.
C20_DeferredFree ==
  /\ [](JERRY_DEBUGGER_CONNECTED \notin debugger_flags
          => byte_code_free = << >> /\ \A cp \in CPs : units[cp] # "queued")
  /\ [][ \A cp \in CPs :
           /\ (ev'.kind = "release" /\ ev'.cp = cp /\ units[cp] = "live"
                 /\ JERRY_DEBUGGER_CONNECTED \in debugger_flags)
                => \/ /\ units'[cp] = "queued"
                      /\ byte_code_free' = Append(byte_code_free, cp)
                      /\ out' = << OutMsg(JERRY_DEBUGGER_RELEASE_BYTE_CODE_CP, cp, 0) >>
                   \/ TornDown' /\ units'[cp] = "none" /\ out' = << >>
           /\ (FreeOf(ev', cp) /\ units[cp] = "queued") => units'[cp] = "none"
           /\ (units[cp] = "queued" /\ units'[cp] # "queued")
                => /\ units'[cp] = "none"
                   /\ FreeOf(ev', cp) \/ TornDown'
           /\ (units[cp] = "queued" /\ units'[cp] = "queued")
                => /\ ~FreeOf(ev', cp)
                   /\ JERRY_DEBUGGER_CONNECTED \in debugger_flags' ]_vars

\* C20, its case: the client has acknowledged the release of the first unit,
\* which was on the queue and is freed, while another unit runs and the
\* connection is up.
C20_Witness ==
  /\ FreeOf(ev, FirstCp)
  /\ ev.freed
  /\ units[FirstCp] = "none"
  /\ byte_code_free = << >>
  /\ \E cp \in CPs : units[cp] = "live"
  /\ JERRY_DEBUGGER_CONNECTED \in debugger_flags

\* The units on the deferred-free queue.
Queued == { cp \in CPs : units[cp] = "queued" }

\* C21: while a client is connected a released unit stays on the
\* deferred-free queue until a FREE_BYTE_CODE_CP with its pointer is handled:
\* the queue holds exactly the released units, each of them once; a step that
\* leaves the connection up takes a unit off the queue only by handling the
\* FREE_BYTE_CODE_CP that names it, and then frees that unit and no other; a
\* FREE_BYTE_CODE_CP that names no queued unit (a unit that was freed already,
\* a live one, or none) frees nothing.
C21_NoFreeBeforeAcknowledge ==
  /\ []( /\ { byte_code_free[i] : i \in 1 .. Len(byte_code_free) } = Queued
         /\ Len(byte_code_free) = Cardinality(Queued) )
  /\ [][ \A cp \in CPs :
           /\ ( /\ JERRY_DEBUGGER_CONNECTED \in debugger_flags'
                /\ units[cp] = "queued"
                /\ units'[cp] # "queued" )
                => /\ FreeOf(ev', cp)
                   /\ units'[cp] = "none"
                   /\ byte_code_free' = RemoveCp(byte_code_free, cp)
                   /\ \A other \in CPs \ { cp } : units'[other] = units[other]
           /\ ( /\ JERRY_DEBUGGER_CONNECTED \in debugger_flags'
                /\ FreeOf(ev', cp)
                /\ units[cp] # "queued" )
                => (units' = units /\ byte_code_free' = byte_code_free) ]_vars

\* C21, its case: with one unit released and queued, the client sends a
\* FREE_BYTE_CODE_CP that names the other unit, which is live: nothing is
\* freed and the released unit is still on the queue.
C21_Witness ==
  /\ \E cp \in CPs, other \in CPs :
       /\ FreeOf(ev, cp)
       /\ units[cp] = "live"
       /\ units[other] = "queued"
       /\ byte_code_free = << other >>
  /\ ~ev.freed
  /\ JERRY_DEBUGGER_CONNECTED \in debugger_flags

\* The results of wait_for_client_source.
SourceStatuses == { "RECEIVED", "END", "RESET", "FAILED" }

\* Does this step handle a message of one of these types?
Handles(e, types) == e.kind = "msg" /\ e.type \in types

Unhandled == SubSeq(order.arrived, Len(order.handled) + 1, Len(order.arrived))

\* C24: the messages are handled in the order their frames arrive: the
\* payloads handled so far are those of the first frames written, one by one,
\* whatever the recv() calls made of the bytes; with the connection up the
\* bytes of the frames not handled yet are, in order and complete, in the
\* receive buffer and behind it.  A turn of the receive loop handles at most
\* one message and the replies of its handler are written in that turn,
\* before the next frame is looked at: the replies on the wire are in the
\* order of the messages they answer, each the reply to its message.
C24_ArrivalOrder ==
  /\ []( /\ Len(order.handled) <= Len(order.arrived)
         /\ \A i \in 1 .. Len(order.handled) :
              order.handled[i] = PayloadAt(order.arrived[i])
         /\ JERRY_DEBUGGER_CONNECTED \in debugger_flags
              => recv_buffer \o inbound = Flatten(Unhandled)
         /\ \A j \in 1 .. Len(order.replies) :
              /\ order.replies[j].by \in 1 .. Len(order.handled)
              /\ order.handled[order.replies[j].by] = << JERRY_DEBUGGER_MEMSTATS >>
              /\ order.replies[j].type = JERRY_DEBUGGER_MEMSTATS_RECEIVE
              /\ j > 1 => order.replies[j - 1].by < order.replies[j].by )
  /\ [][ /\ Len(order'.handled) <= Len(order.handled) + 1
         /\ Len(order'.handled) = Len(order.handled) + 1
              => /\ Len(recv_buffer \o inbound) >= Len(order.arrived[Len(order'.handled)])
                 /\ \A j \in Len(order.replies) + 1 .. Len(order'.replies) :
                      order'.replies[j].by = Len(order'.handled)
         /\ Len(order'.handled) = Len(order.handled) => order'.replies = order.replies ]_vars

\* C24, its case: three frames were written, the first and the third ask for
\* the memory statistics; all three are handled and the two replies are on
\* the wire.
C24_Witness ==
  /\ Len(order.arrived) = MaxFrames
  /\ Len(order.handled) = MaxFrames
  /\ order.handled[1] = << JERRY_DEBUGGER_MEMSTATS >>
  /\ order.handled[2] = << JERRY_DEBUGGER_STOP >>
  /\ order.handled[MaxFrames] = << JERRY_DEBUGGER_MEMSTATS >>
  /\ Len(order.replies) = 2
  /\ JERRY_DEBUGGER_CONNECTED \in debugger_flags

\* C25: what the socket has taken of the data is at every moment its first
\* bytes, in order and without a gap, and as many bytes are left to send as
\* are missing; send has returned true only when they are all there.  A
\* send() that would block changes nothing and the call goes on with the
\* same bytes; the call returns false exactly in the turn whose send() fails
\* with another error.
C25_SendUntilDrained ==
  /\ []( /\ tx.p + tx.left = Len(tx.data)
         /\ sock = SubSeq(tx.data, 1, tx.p)
         /\ tx.ret = "true" => (sock = tx.data /\ tx.left = 0 /\ ~tx.busy)
         /\ tx.busy => (tx.left > 0 /\ tx.ret = "none") )
  /\ [][ ev'.kind = "send"
          => /\ tx.busy
             /\ CASE ev'.mode = "again" ->
                       /\ tx' = tx
                       /\ sock' = sock
                       /\ JERRY_DEBUGGER_CONNECTED \in debugger_flags'
                  [] ev'.mode = "error" ->
                       /\ tx'.ret = "false"
                       /\ ~tx'.busy
                       /\ sock' = sock
                  [] OTHER ->
                       /\ tx'.ret \in { "none", "true" }
                       /\ Len(sock') >= Len(sock)
                       /\ tx'.busy <=> Len(sock') < Len(tx.data)
                       /\ JERRY_DEBUGGER_CONNECTED \in debugger_flags' ]_vars

\* C25, its case: a send() would block in the middle of a frame, some of
\* its bytes written and some not, and the call goes on.
C25_Witness ==
  /\ ev.kind = "send"
  /\ ev.mode = "again"
  /\ tx.busy
  /\ tx.p > MaxWrite
  /\ tx.left > MaxWrite
  /\ JERRY_DEBUGGER_CONNECTED \in debugger_flags

\* C26, as stated: close is idempotent.  No step calls close() on a
\* descriptor that is closed already (fd is -1 after the first close), and
\* no call of close finds its assertion violated.
C26_CloseIdempotent ==
  /\ failed = { }
  /\ \A i \in 1 .. Len(closes) : closes[i] # NoFd

\* C26, its case: the 101 response of the handshake could not be written;
\* jerry_debugger_send_tcp has closed the connection and accept has closed it
\* once more, with fd at -1 and CONNECTED gone.
C26_Witness ==
  /\ ev.kind = "accept"
  /\ ev.mode = "send"
  /\ closes = << ServerFd, ClientFd, NoFd >>
  /\ failed = { "JERRY_DEBUGGER_CONNECTED" }
  /\ TornDown

\* How often a step has called close() on a descriptor.
CloseCalls(log, d) == Cardinality({ i \in 1 .. Len(log) : log[i] = d })

\* C27: an accept that got a listening socket has closed it, once, on
\* whatever path it returns; an accept that fails leaves no client socket
\* open, and where it had one (the handshake fails, the configuration cannot
\* be sent, the socket cannot be made non-blocking) it has closed it; an
\* accept that succeeds leaves the client socket open.  A step that loses the
\* connection (a protocol error, a malformed frame, a failed recv or send)
\* closes the client socket, and a client socket is open exactly while the
\* session is connected.
C27_SocketsReleased ==
  /\ [](fd # NoFd <=> JERRY_DEBUGGER_CONNECTED \in debugger_flags)
  /\ [][ /\ ev'.kind = "accept"
           => /\ CloseCalls(closes', ServerFd) = (IF ev'.mode = "socket" THEN 0 ELSE 1)
              /\ ev'.mode # "ok"
                   => /\ fd' = NoFd
                      /\ JERRY_DEBUGGER_CONNECTED \notin debugger_flags'
              /\ ev'.mode \notin { "ok", "socket", "listen" } => CloseCalls(closes', ClientFd) = 1
              /\ ev'.mode \in { "socket", "listen" } => CloseCalls(closes', ClientFd) = 0
              /\ ev'.mode = "ok" => (fd' = ClientFd /\ CloseCalls(closes', ClientFd) = 0)
         /\ (JERRY_DEBUGGER_CONNECTED \in debugger_flags
               /\ JERRY_DEBUGGER_CONNECTED \notin debugger_flags')
           => /\ fd' = NoFd
              /\ CloseCalls(closes', fd) = 1 ]_vars

\* C27, its case: the client's socket could not be switched to non-blocking
\* mode after the handshake and the configuration message; accept has closed
\* both sockets.
C27_Witness ==
  /\ ev.kind = "accept"
  /\ ev.mode = "fcntl"
  /\ closes = << ServerFd, ClientFd >>
  /\ fd = NoFd
  /\ failed = { }

\* C28: a port-level send or receive reports its outcome as a value.  With a
\* null connection it returns JERRY_CONN_ERROR_INVALID and sets the byte count
\* to -1; otherwise it returns JERRY_CONN_ERROR_AGAIN when the socket call
\* failed with EWOULDBLOCK, JERRY_CONN_ERROR_IO when it failed with any other
\* error, and JERRY_CONN_ERROR_NONE, with the byte count the socket call
\* returned, when it did not fail.  A would-block is never reported as an I/O
\* error.
C28_PortOutcome ==
  port.op \in { "send", "receive" }
    => /\ port.connection_p = NULL
          => (port.ret = "JERRY_CONN_ERROR_INVALID" /\ port.bytes = -1)
       /\ (port.connection_p # NULL /\ port.sys.ret < 0 /\ port.sys.errno = "EWOULDBLOCK")
          => port.ret = "JERRY_CONN_ERROR_AGAIN"
       /\ (port.connection_p # NULL /\ port.sys.ret < 0 /\ port.sys.errno # "EWOULDBLOCK")
          => port.ret = "JERRY_CONN_ERROR_IO"
       /\ (port.connection_p # NULL /\ port.sys.ret >= 0)
          => (port.ret = "JERRY_CONN_ERROR_NONE" /\ port.bytes = port.sys.ret)
       /\ port.sys.errno = "EWOULDBLOCK" => port.ret # "JERRY_CONN_ERROR_IO"

\* C28, its case: a receive on an open connection whose recv() would block.
C28_Witness ==
  /\ port.op = "receive"
  /\ port.connection_p = socket_connection
  /\ port.sys = [ ret |-> -1, errno |-> "EWOULDBLOCK" ]
  /\ port.ret = "JERRY_CONN_ERROR_AGAIN"

\* C29: whatever the client writes and however recv() splits it, the receive
\* offset never exceeds the size of the receive buffer, so that a recv() is
\* never given room past its end.  A turn of the receive loop that finds the
\* buffer full never waits for more bytes: a frame that is accepted is
\* complete and is handed to the dispatcher (a header that announces more
\* than fits is refused).  As long as the connection is up, the buffer a turn
\* leaves behind has room for the next recv().
C29_ReceiveOffsetBounded ==
  /\ Len(recv_buffer) <= JERRY_DEBUGGER_MAX_BUFFER_SIZE
  /\ Len(seen.head) <= JERRY_DEBUGGER_MAX_BUFFER_SIZE
  /\ (Len(seen.head) = JERRY_DEBUGGER_MAX_BUFFER_SIZE /\ ev.kind # "client")
       => /\ ev.kind \in { "msg", "malformed", "opcode" }
          /\ ev.kind = "msg"
               => /\ seen.dispatched
                  /\ Len(seen.payload) + ReceiveHeaderSize <= Len(seen.head)
  /\ JERRY_DEBUGGER_CONNECTED \in debugger_flags
       => Len(recv_buffer) < JERRY_DEBUGGER_MAX_BUFFER_SIZE

\* C29, its case: a turn found the buffer full and at its head the largest
\* frame there is, which it handed to the dispatcher.
C29_Witness ==
  /\ Len(seen.head) = JERRY_DEBUGGER_MAX_BUFFER_SIZE
  /\ ev.kind = "msg"
  /\ seen.dispatched
  /\ Len(seen.payload) = JERRY_DEBUGGER_MAX_BUFFER_SIZE - ReceiveHeaderSize

\* The turns of the receive loop by what the recv() brought.
TurnKinds == { "msg", "recv_nothing", "malformed", "opcode", "recv_error" }

\* C30 as stated: a call of receive makes one recv(), dispatches the frame if
\* a complete one is there, and returns: no turn of the loop is followed by
\* another turn of the same call.
C30_OneRecvPerPoll ==
  [][ rx.active => ~rx'.active ]_vars

\* C30: a call of receive is a loop of turns, each with one non-blocking
\* recv().  A turn that finds a complete frame dispatches it and, the
\* connection still being up, is followed by a further turn with a further
\* recv(); a turn that finds no complete frame ends the call, unless the next
\* part of a transfer is expected, and then the loop goes on receiving; a turn
\* that closes the connection ends the call.
C30_PollIsALoop ==
  [][ rx.active
        => /\ ev'.kind \in TurnKinds
           /\ rx'.active
                => /\ JERRY_DEBUGGER_CONNECTED \in debugger_flags'
                   /\ \/ ev'.kind = "msg"
                      \/ ev'.kind = "recv_nothing" /\ rx.expected # 0
           /\ (ev'.kind = "msg" /\ JERRY_DEBUGGER_CONNECTED \in debugger_flags')
                => rx'.active
           /\ ev'.kind = "recv_nothing" => (rx'.active <=> rx.expected # 0)
           /\ ev'.kind \in { "malformed", "opcode", "recv_error" }
                => (~rx'.active /\ JERRY_DEBUGGER_CONNECTED \notin debugger_flags') ]_vars

\* C30, its case: a turn has dispatched a message, the connection is up, and
\* the call goes on to its next recv().
C30_Witness ==
  /\ rx.active
  /\ ev.kind = "msg"
  /\ JERRY_DEBUGGER_CONNECTED \in debugger_flags

\* The bytes of the client's stream that recv() calls have taken so far.
Taken_bytes == Len(Flatten(order.arrived)) - Len(inbound)

\* How many of the leading frames lie wholly within the first n bytes.
RECURSIVE CompleteIn(_, _)
CompleteIn(frames, n) ==
  IF frames = << >> \/ Len(Head(frames)) > n THEN 0
  ELSE 1 + CompleteIn(Tail(frames), n - Len(Head(frames)))

\* C31: what is dispatched of a stream of valid frames depends on the bytes
\* received only, not on the recv() calls that brought them.  At no moment is
\* a message handled whose frame is not wholly received; when a call of
\* receive has returned with the connection up, the messages handled are
\* exactly the payloads, in order, of the frames that lie wholly within the
\* bytes received, and the receive buffer holds, from its start, the received
\* bytes of the frame behind them and nothing else.
C31_SplitIndependent ==
  LET n == CompleteIn(order.arrived, Taken_bytes)
  IN /\ Len(order.handled) <= n
     /\ \A i \in 1 .. Len(order.handled) : order.handled[i] = PayloadAt(order.arrived[i])
     /\ (JERRY_DEBUGGER_CONNECTED \in debugger_flags /\ ~rx.active)
          => /\ Len(order.handled) = n
             /\ recv_buffer = SubSeq(Flatten(order.arrived),
                                     Len(Flatten(SubSeq(order.arrived, 1, n))) + 1,
                                     Taken_bytes)
             /\ n < Len(order.arrived)
                  => /\ Len(recv_buffer) < Len(order.arrived[n + 1])
                     /\ recv_buffer = SubSeq(order.arrived[n + 1], 1, Len(recv_buffer))

\* C31, its case: two frames and a part of a third have been received; the
\* call of receive has returned with two messages handled and the bytes of
\* the third at the start of the receive buffer.
C31_Witness ==
  /\ JERRY_DEBUGGER_CONNECTED \in debugger_flags
  /\ ~rx.active
  /\ Len(order.arrived) = 3
  /\ Len(order.handled) = 2
  /\ Len(recv_buffer) = 4
  /\ recv_buffer = SubSeq(order.arrived[3], 1, 4)
  /\ inbound # << >>

\* The places where the engine is blocked in a blocking poll.
Blocked == { "bp", "parse", "source" }

\* C32: the engine is never blocked on a closed session.  When a turn of a
\* receive call made from a blocking poll closes the connection (recv()
\* failed, the frame is malformed, its opcode is not BINARY), the call
\* returns in that turn reporting "resume", the paused mode is gone, VM_IGNORE
\* is set, and the engine has left the poll: it runs on after a breakpoint
\* and goes on after a parser wait or a wait for client source.
C32_PollEndsOnClose ==
  /\ [](pc \in Blocked => JERRY_DEBUGGER_CONNECTED \in debugger_flags)
  /\ [][ (rx.active /\ pc \in Blocked /\ ev'.kind \in { "recv_error", "malformed", "opcode" })
           => /\ ~rx'.active
              /\ debugger_flags' = { JERRY_DEBUGGER_VM_IGNORE }
              /\ fd' = NoFd
              /\ pc' = (IF pc = "bp" THEN "run" ELSE "idle") ]_vars

\* C32, its case: the engine was paused at a breakpoint when a recv() of its
\* blocking poll failed; the connection is closed and the engine runs.
C32_Witness ==
  /\ ev.kind = "recv_error"
  /\ ev.mode = "breakpoint"
  /\ pc = "run"
  /\ JERRY_DEBUGGER_CONNECTED \notin debugger_flags
  /\ closes = << ClientFd >>

\* The step has run the handler of a fragmented transfer of this kind.
HandlerRan(kind) ==
  CASE kind = "source" -> /\ source_status' = "RECEIVED"
                          /\ JERRY_DEBUGGER_CLIENT_SOURCE_MODE \notin debugger_flags'
    [] kind = "eval" -> \E i \in 1 .. Len(out') : out'[i].type = JERRY_DEBUGGER_EVAL_RESULT_END
    [] OTHER -> JERRY_DEBUGGER_THROW_ERROR_FLAG \in debugger_flags'

Min(a, b) == IF a < b THEN a ELSE b

Xor(a, b) == a + b - 2 * BitAnd(a, b)

\* C35: when a frame is handed to the dispatcher, the buffer differs from
\* what recv() left in it in the n data bytes only: data byte i (from 0) is
\* the raw byte XOR mask byte i mod 4; the two header bytes, the four mask
\* bytes and the bytes behind the payload are as they were.  The payload the
\* dispatcher reads is those n bytes.  Unmasking the buffer once more gives
\* the raw bytes back, and the bytes behind the frame are what is moved to
\* the front of the buffer.
C35_UnmaskInPlace ==
  seen.dispatched
    => LET raw == seen.head
           n == MessageSize(raw)
       IN /\ Len(seen.unmasked) = Len(raw)
          /\ \A i \in 1 .. Len(raw) :
               seen.unmasked[i]
                 = IF i > ReceiveHeaderSize /\ i <= ReceiveHeaderSize + n
                   THEN Xor(raw[i],
                            raw[JERRY_DEBUGGER_WEBSOCKET_HEADER_SIZE + 1
                                  + ((i - ReceiveHeaderSize - 1)
                                       % JERRY_DEBUGGER_WEBSOCKET_MASK_SIZE)])
                   ELSE raw[i]
          /\ seen.payload = SubSeq(seen.unmasked, ReceiveHeaderSize + 1, ReceiveHeaderSize + n)
          /\ UnmaskInPlace(seen.unmasked) = raw
          /\ JERRY_DEBUGGER_CONNECTED \in debugger_flags
               => recv_buffer = SubSeq(seen.unmasked, ReceiveHeaderSize + n + 1, Len(raw))

\* C35, its case: a long frame under a mask whose four bytes differ was
\* unmasked, the mask going round more than twice.
C35_Witness ==
  /\ seen.dispatched
  /\ SubSeq(seen.head, JERRY_DEBUGGER_WEBSOCKET_HEADER_SIZE + 1, ReceiveHeaderSize)
       = << 1, 2, 4, 255 >>
  /\ MessageSize(seen.head) > 2 * JERRY_DEBUGGER_WEBSOCKET_MASK_SIZE
  /\ seen.unmasked # seen.head
  /\ seen.payload[ReceiveHeaderSize] = ReceiveHeaderSize

-----------------------------------------------------------------------------
-----------------------------------------------------------------------------
\* The place of a message type in the notifications of a parsed function.
ParseRank(type) ==
  CASE type = JERRY_DEBUGGER_SOURCE_CODE -> 1
    [] type = JERRY_DEBUGGER_SOURCE_CODE_END -> 2
    [] type = JERRY_DEBUGGER_SOURCE_CODE_NAME -> 3
    [] type = JERRY_DEBUGGER_SOURCE_CODE_NAME_END -> 4
    [] type = JERRY_DEBUGGER_FUNCTION_NAME -> 5
    [] type = JERRY_DEBUGGER_FUNCTION_NAME_END -> 6
    [] type = JERRY_DEBUGGER_PARSE_FUNCTION -> 7
    [] type = JERRY_DEBUGGER_BREAKPOINT_LIST -> 8
    [] type = JERRY_DEBUGGER_BREAKPOINT_OFFSET_LIST -> 9
    [] type = JERRY_DEBUGGER_BYTE_CODE_CP -> 10
    [] type = JERRY_DEBUGGER_WAITING_AFTER_PARSE -> 11
    [] OTHER -> 0

\* The places that are taken once each; the others repeat, one message for
\* every full message of a string.
ParseOnce == { 2, 4, 6, 7, 8, 9, 10, 11 }

\* The messages are in the order of the notifications, as far as they go:
\* each is of the same repeating place as the one before it, or of the next
\* place taken once, or of the repeating place before that.
InParseOrder(msgs) ==
  \A i \in 1 .. Len(msgs) :
    LET r == ParseRank(msgs[i].type)
        q == IF i = 1 THEN 0 ELSE ParseRank(msgs[i - 1].type)
    IN /\ r # 0
       /\ IF r \in ParseOnce
          THEN q \in { r - 1, r - 2 } /\ (q = r - 2 => q \in ParseOnce \cup { 0 })
          ELSE q \in { r, r - 1 }

\* C38: the messages a parsed function sends are, in this order, the
\* SOURCE_CODE stream, the SOURCE_CODE_NAME stream, the FUNCTION_NAME stream
\* (each closed by its END message), PARSE_FUNCTION, BREAKPOINT_LIST,
\* BREAKPOINT_OFFSET_LIST and BYTE_CODE_CP with the function's pointer, all of
\* them if the connection lasts; with PARSER_WAIT set WAITING_AFTER_PARSE
\* follows, PARSER_WAIT_MODE is set and the engine stands in its blocking
\* poll; it leaves the poll only by a PARSER_RESUME or by the end of the
\* connection, and then PARSER_WAIT_MODE is clear.
C38_ParseNotifications ==
  [][ /\ ev'.kind = "parse"
        => /\ InParseOrder(out')
           /\ ( JERRY_DEBUGGER_CONNECTED \in debugger_flags
                /\ JERRY_DEBUGGER_CONNECTED \in debugger_flags' )
                => LET k == Len(out')
                       w == IF JERRY_DEBUGGER_PARSER_WAIT \in debugger_flags THEN 1 ELSE 0
                   IN /\ k >= 7 + w
                      /\ out'[k - w] = OutMsg(JERRY_DEBUGGER_BYTE_CODE_CP, ev'.cp, 0)
                      /\ w = 1 => out'[k].type = JERRY_DEBUGGER_WAITING_AFTER_PARSE
                      /\ (JERRY_DEBUGGER_PARSER_WAIT_MODE \in debugger_flags') = (w = 1)
                      /\ pc' = IF w = 1 THEN "parse" ELSE "idle"
           /\ JERRY_DEBUGGER_CONNECTED \notin debugger_flags'
                => /\ pc' = "idle"
                   /\ JERRY_DEBUGGER_PARSER_WAIT_MODE \notin debugger_flags'
      /\ pc = "parse"
        => /\ JERRY_DEBUGGER_CONNECTED \in debugger_flags
           /\ ev'.kind \in TurnKinds \cup { "poll" }
           /\ pc' \in { "parse", "idle" }
           /\ units' = units
           /\ pc' = "idle" => JERRY_DEBUGGER_PARSER_WAIT_MODE \notin debugger_flags'
           /\ ( ev'.kind = "msg" /\ ev'.type = JERRY_DEBUGGER_PARSER_RESUME )
                => JERRY_DEBUGGER_PARSER_WAIT_MODE \notin debugger_flags'
           /\ ( JERRY_DEBUGGER_PARSER_WAIT_MODE \in debugger_flags
                /\ JERRY_DEBUGGER_PARSER_WAIT_MODE \notin debugger_flags' )
                => \/ JERRY_DEBUGGER_CONNECTED \notin debugger_flags'
                   \/ ev'.kind = "msg" /\ ev'.type = JERRY_DEBUGGER_PARSER_RESUME
           /\ ( JERRY_DEBUGGER_PARSER_WAIT_MODE \in debugger_flags'
                /\ JERRY_DEBUGGER_CONNECTED \in debugger_flags' )
                => pc' = "parse" ]_vars

\* C38, its case: all eleven kinds of message of a notification went out and
\* the engine waits.
C38_Witness ==
  /\ ev.kind = "parse"
  /\ ev.hit
  /\ pc = "parse"
  /\ Len(out) = 11
  /\ { ParseRank(out[i].type) : i \in 1 .. 11 } = 1 .. 11

-----------------------------------------------------------------------------
\* C39, as stated: the assertion at the entry of the close routine holds on
\* every path of accept, and accept closes the session at most once: after a
\* send of the handshake or of the configuration has failed and closed the
\* connection, accept does not close it again.
C39_ClosedAtMostOnce ==
  [][ ev'.kind = "accept"
        => /\ "JERRY_DEBUGGER_CONNECTED" \notin failed'
           /\ CloseCalls(closes', ClientFd) + CloseCalls(closes', NoFd) <= 1
           /\ ev'.mode \in { "send", "config" }
                => /\ CloseCalls(closes', ClientFd) = 1
                   /\ CloseCalls(closes', NoFd) = 0 ]_vars

\* C39, its case: a send of the handshake response has failed; the send has
\* closed the connection and accept has entered the close routine once more,
\* without CONNECTED.
C39_Witness ==
  /\ ev.kind = "accept"
  /\ ev.mode = "send"
  /\ CloseCalls(closes, ClientFd) = 1
  /\ CloseCalls(closes, NoFd) = 1
  /\ "JERRY_DEBUGGER_CONNECTED" \in failed
  /\ fd = NoFd
  /\ JERRY_DEBUGGER_CONNECTED \notin debugger_flags

\* C39, the other send: the configuration could not be written; the send has
\* closed the connection and accept has returned without a second close.
C39_ConfigurationClosedOnce ==
  /\ ev.kind = "accept"
  /\ ev.mode = "config"
  /\ closes = << ServerFd, ClientFd >>
  /\ failed = { }

-----------------------------------------------------------------------------
\* C40, as stated: the handshake terminates under every client: once accept
\* has started to read the request its read loop ends and accept returns.
C40_HandshakeTerminates == (pc = "handshake") ~> (pc = "idle")

\* C40, its case: the client has closed its side before the request was
\* complete; recv has returned 0 and the read loop has taken a turn that left
\* the request as it was, with room left and no blank line at its end.
C40_Witness ==
  /\ pc = "handshake"
  /\ peer = "closed"
  /\ ev.kind = "handshake"
  /\ request # << >>
  /\ RequestRoom(request) > 0
  /\ ~EndsRequest(request)
  /\ ~ENABLED << HandshakeTurn >>_vars

\* C40, what holds: while the client's side is open every turn of the read
\* loop adds to the request or ends the loop, the request never passes the
\* room of the buffer, and a valid request whose last piece has arrived is
\* accepted or fails in its sends only, however it was split.
C40_OpenClientTerminates ==
  [][ /\ ev'.kind = "handshake" /\ peer' = "open" => Len(request') > Len(request)
      /\ Len(request') <= request_buffer_size - 1
      /\ ( ev'.kind = "accept" /\ request' = ValidRequest ) => ev'.mode \in { "ok", "send" } ]_vars


=============================================================================
